---------------------------- MODULE Spec2Model ----------------------------
(***************************************************************************)
(* A model of the vcf package of bio-format-tools-go: the header reader    *)
(* (NewReader, parseLineToMeta), the record reader (Reader.Read,           *)
(* parseFeature), the lazy genotype decoder (Feature.SingleGenotype) and   *)
(* the directive serialiser (Meta.String).                                 *)
(*                                                                         *)
(* A Go string or []byte is a sequence of one-character strings, so that   *)
(* bytes.Split, bytes.TrimSpace, bytes.HasPrefix and the line terminator   *)
(* are computed byte by byte as the code computes them.  A Go map is a     *)
(* function whose DOMAIN is its key set.  A pointer is an index into a     *)
(* heap (a sequence of objects).                                           *)
(***************************************************************************)
EXTENDS Integers, Sequences, FiniteSets, TLC

(***************************************************************************)
(* Go library functions on byte strings.                                   *)
(***************************************************************************)

\* unicode white space as bytes.TrimSpace sees it in ASCII input
WhiteSpace == {" ", "\t", "\n", "\r"}

\* bytes.HasPrefix
HasPrefix(s, p) == Len(s) >= Len(p) /\ SubSeq(s, 1, Len(p)) = p

\* bytes.Split(s, sep) for a one-byte separator: always at least one piece
Split(s, sep) ==
    LET pos == {i \in 1..Len(s) : s[i] = sep}
        n == Cardinality(pos)
        at(k) == IF k = 0 THEN 0
                 ELSE IF k = n + 1 THEN Len(s) + 1
                 ELSE CHOOSE i \in pos : Cardinality({j \in pos : j < i}) = k - 1
    IN [k \in 1..(n + 1) |-> SubSeq(s, at(k - 1) + 1, at(k) - 1)]

\* bytes.SplitN(s, sep, n) for a one-byte separator and n >= 1: at most n
\* pieces, the last one holding the unsplit remainder
SplitN(s, sep, n) ==
    LET pos == {i \in 1..Len(s) : s[i] = sep}
        m == IF Cardinality(pos) + 1 < n THEN Cardinality(pos) + 1 ELSE n
        at(k) == IF k = 0 THEN 0
                 ELSE IF k = m THEN Len(s) + 1
                 ELSE CHOOSE i \in pos : Cardinality({j \in pos : j < i}) = k - 1
    IN [k \in 1..m |-> SubSeq(s, at(k - 1) + 1, at(k) - 1)]

\* bytes.TrimLeft(s, cutset): drop every leading byte that is in cutset
TrimLeft(s, cutset) ==
    LET RECURSIVE go(_)
        go(i) == IF i <= Len(s) /\ s[i] \in cutset THEN go(i + 1) ELSE i
    IN SubSeq(s, go(1), Len(s))

\* bytes.TrimRight(s, cutset) / strings.TrimRight
TrimRight(s, cutset) ==
    LET RECURSIVE go(_)
        go(i) == IF i >= 1 /\ s[i] \in cutset THEN go(i - 1) ELSE i
    IN SubSeq(s, 1, go(Len(s)))

\* bytes.Trim(s, cutset)
Trim(s, cutset) == TrimRight(TrimLeft(s, cutset), cutset)

\* bytes.TrimSpace
TrimSpace(s) == Trim(s, WhiteSpace)

\* strings.Join / bytes.Join with a separator string
Join(pieces, sep) ==
    LET RECURSIVE go(_, _)
        go(i, acc) ==
            IF i > Len(pieces) THEN acc
            ELSE go(i + 1, IF i = 1 THEN pieces[i] ELSE acc \o sep \o pieces[i])
    IN go(1, <<>>)

\* the nil error
NilErr == "nil"

\* io.EOF
EOF == "EOF"

\* bufio.Reader.ReadBytes(delim) on the unread bytes buf: the bytes up to and
\* including the first delim, or everything left together with io.EOF
ReadBytes(buf, delim) ==
    LET RECURSIVE find(_)
        find(i) == IF i > Len(buf) THEN 0
                   ELSE IF buf[i] = delim THEN i ELSE find(i + 1)
        at == find(1)
    IN IF at = 0
       THEN [line |-> buf, rest |-> <<>>, err |-> EOF]
       ELSE [line |-> SubSeq(buf, 1, at), rest |-> SubSeq(buf, at + 1, Len(buf)),
             err |-> NilErr]

\* a Go map[string]T with no entry (also the nil map)
EmptyMap == [k \in {} |-> <<>>]

\* m[k] = v
MapPut(m, k, v) == [x \in DOMAIN m \cup {k} |-> IF x = k THEN v ELSE m[x]]

\* m[k] of a map[string]string: the empty string when k is absent
MapGet(m, k) == IF k \in DOMAIN m THEN m[k] ELSE <<>>

(***************************************************************************)
(* String literals of the source.                                          *)
(***************************************************************************)
sFieldType == <<"F", "i", "e", "l", "d", "T", "y", "p", "e">>
sID == <<"I", "D">>
sNumber == <<"N", "u", "m", "b", "e", "r">>
sType == <<"T", "y", "p", "e">>
sDescription == <<"D", "e", "s", "c", "r", "i", "p", "t", "i", "o", "n">>
sURL == <<"U", "R", "L">>
sfileformat == <<"f", "i", "l", "e", "f", "o", "r", "m", "a", "t">>
sMETA == <<"M", "E", "T", "A">>
sINFO == <<"I", "N", "F", "O">>
sFILTER == <<"F", "I", "L", "T", "E", "R">>
sFORMAT == <<"F", "O", "R", "M", "A", "T">>
sALT == <<"A", "L", "T">>
sSAMPLE == <<"S", "A", "M", "P", "L", "E">>
sassembly == <<"a", "s", "s", "e", "m", "b", "l", "y">>
scontig == <<"c", "o", "n", "t", "i", "g">>
spedigree == <<"p", "e", "d", "i", "g", "r", "e", "e">>
sGT == <<"G", "T">>

(***************************************************************************)
(* The error values of the package, by the names the specification gives   *)
(* them.                                                                   *)
(***************************************************************************)
NotAVCF == "fileformat is not vcf"
InvalidMetaHeader == "invalid meta header"
TooFewHeaderColumns == "header has too few columns to be minimum vcf"
MissingFormatColumn == "header needs a FORMAT column before adding genotypes"
FormatWithoutGenotype == "header FORMAT column must be followed by at least one genotype"
NoHeaderLine == "no header line present"
TooFewColumns == "too few columns in feature line"
MalformedGenotypeData == "genotype has improperly formatted data"
GenotypeNotInFile == "genotype not in vcf"

\* the nil pointer, and the pointer to the object at address addr of a heap
Nil == [nil |-> TRUE]
Ptr(addr) == [addr |-> addr]

(***************************************************************************)
(* parseLineToMeta: one header line to (field map, key order, formatted,   *)
(* error).                                                                 *)
(***************************************************************************)
\* the structured branch of parseLineToMeta: the sub-fields key=value of
\* fields, in order; a piece without '=' is skipped
ParseMetaFields(fieldType, fields) ==
    LET RECURSIVE go(_, _, _)
        go(i, vals, order) ==
            IF i > Len(fields)
            THEN [metaValues |-> vals, metaOrder |-> order,
                  formatted |-> TRUE, err |-> NilErr]
            ELSE LET info == Split(fields[i], "=")
                 IN IF Len(info) = 1 THEN go(i + 1, vals, order)
                    ELSE go(i + 1, MapPut(vals, info[1], info[2]),
                            Append(order, info[1]))
    IN go(1, MapPut(EmptyMap, sFieldType, fieldType), <<sFieldType>>)

\* parseLineToMeta after the split of the line on its first '='
ParseMetaPieces(line) ==
    IF Len(line) = 1
    THEN [metaValues |-> EmptyMap, metaOrder |-> <<>>, formatted |-> FALSE,
          err |-> InvalidMetaHeader]
    ELSE IF ~HasPrefix(line[2], <<"<">>)
    THEN [metaValues |-> MapPut(MapPut(EmptyMap, sFieldType, line[1]), sID, line[2]),
          metaOrder |-> <<sFieldType, sID>>, formatted |-> FALSE, err |-> NilErr]
    ELSE ParseMetaFields(TrimLeft(line[1], {"#"}),
                         Split(Trim(TrimSpace(line[2]), {"<", ">"}), ","))

parseLineToMeta(meta) ==
    ParseMetaPieces(SplitN(TrimLeft(TrimSpace(meta), {"#"}), "=", 2))


(***************************************************************************)
(* The header.                                                             *)
(***************************************************************************)

\* NewHeader: every collection empty, Genotypes an empty map
NewHeader ==
    [Metas |-> <<>>, Infos |-> <<>>, Filters |-> <<>>, Formats |-> <<>>,
     Alts |-> <<>>, Assemblies |-> <<>>, Contigs |-> <<>>, Samples |-> <<>>,
     Pedigrees |-> <<>>, Others |-> <<>>, SingleVals |-> <<>>,
     PrintOrder |-> <<>>, FileFormat |-> <<>>, Genotypes |-> EmptyMap]

\* the ten category collections of a Header
Categories ==
    {"Metas", "Infos", "Filters", "Formats", "Alts", "Assemblies", "Contigs",
     "Samples", "Pedigrees", "Others"}

\* the switch of NewReader on metaFields["FieldType"]: the collection a
\* structured directive is appended to
CategoryOf(fieldType) ==
    CASE fieldType = sMETA -> "Metas"
      [] fieldType = sINFO -> "Infos"
      [] fieldType = sFILTER -> "Filters"
      [] fieldType = sFORMAT -> "Formats"
      [] fieldType = sALT -> "Alts"
      [] fieldType = sSAMPLE -> "Samples"
      [] fieldType = sassembly -> "Assemblies"
      [] fieldType = scontig -> "Contigs"
      [] fieldType = spedigree -> "Pedigrees"
      [] OTHER -> "Others"

\* the zero Meta
ZeroMeta ==
    [FieldType |-> <<>>, Id |-> <<>>, Number |-> <<>>, Type |-> <<>>,
     Description |-> <<>>, Url |-> <<>>, Optional |-> EmptyMap,
     FieldOrder |-> <<>>]

\* the "load meta struct" loop of NewReader: a Meta from the field map and the
\* key order of a structured directive
LoadMeta(metaFields, metaOrder) ==
    LET RECURSIVE go(_, _)
        go(i, meta) ==
            IF i > Len(metaOrder) THEN meta
            ELSE LET field == metaOrder[i]
                     v == MapGet(metaFields, field)
                 IN go(i + 1,
                       CASE field = sFieldType -> [meta EXCEPT !.FieldType = v]
                         [] field = sID -> [meta EXCEPT !.Id = v]
                         [] field = sNumber -> [meta EXCEPT !.Number = v]
                         [] field = sType -> [meta EXCEPT !.Type = v]
                         [] field = sDescription -> [meta EXCEPT !.Description = v]
                         [] field = sURL -> [meta EXCEPT !.Url = v]
                         [] OTHER -> [meta EXCEPT !.Optional = MapPut(@, field, v)])
    IN go(1, [ZeroMeta EXCEPT !.FieldOrder = SubSeq(metaOrder, 2, Len(metaOrder))])

\* the sample loop of NewReader: name of the i-th sample column -> i
HeaderGenotypes(header) ==
    LET RECURSIVE go(_, _)
        go(i, m) == IF i > Len(header) THEN m
                    ELSE go(i + 1, MapPut(m, header[i], i - 10))
    IN go(10, EmptyMap)

\* the column header branch of NewReader on the tab-split line header: the
\* error to report and the Genotypes map to store (rerr is the error of the
\* line read)
ColumnHeader(header, rerr) ==
    IF Len(header) < 8
    THEN [readErr |-> TooFewHeaderColumns, Genotypes |-> EmptyMap]
    ELSE IF Len(header) = 9
    THEN IF header[9] # sFORMAT
         THEN [readErr |-> MissingFormatColumn, Genotypes |-> EmptyMap]
         ELSE [readErr |-> FormatWithoutGenotype, Genotypes |-> EmptyMap]
    ELSE IF Len(header) >= 10
    THEN [readErr |-> rerr, Genotypes |-> HeaderGenotypes(header)]
    ELSE [readErr |-> rerr, Genotypes |-> EmptyMap]

\* the state of the "read header/meta" loop of NewReader is st = [buf,
\* LineNumber, line, readErr, foundHeader, h, heap], where heap holds the
\* Meta objects allocated so far and h points to them
RECURSIVE HeaderLoop(_)

\* line 1: the fileformat line, parsed to pm
FirstLine(st, pm) ==
    IF pm.err # NilErr \/ MapGet(pm.metaValues, sFieldType) # sfileformat
    THEN [st EXCEPT !.readErr = NotAVCF]
    ELSE HeaderLoop([st EXCEPT !.h.FileFormat = MapGet(pm.metaValues, sID)])

\* a structured directive: meta is allocated at ptr and appended to the
\* collection cat and to PrintOrder
StructuredLine(st, meta, ptr, cat) ==
    HeaderLoop([st EXCEPT !.heap = Append(@, meta),
                          !.h[cat] = Append(@, ptr),
                          !.h.PrintOrder = Append(@, ptr)])

\* a line starting with ##, parsed to pm
MetaLine(st, pm) ==
    IF pm.err # NilErr
    THEN [st EXCEPT !.readErr = pm.err]
    ELSE IF pm.formatted = FALSE
    THEN HeaderLoop([st EXCEPT !.h.SingleVals =
             Append(@, [FieldType |-> MapGet(pm.metaValues, sFieldType),
                        Id |-> MapGet(pm.metaValues, sID)])])
    ELSE StructuredLine(st, LoadMeta(pm.metaValues, pm.metaOrder),
                        Ptr(Len(st.heap) + 1),
                        CategoryOf(MapGet(pm.metaValues, sFieldType)))

\* mutant of ColumnHeaderLine: the loop goes on after the column header line
ColumnHeaderLine_WithoutBreak(st, ch) ==
    HeaderLoop([st EXCEPT !.foundHeader = TRUE, !.readErr = ch.readErr,
                          !.h.Genotypes = ch.Genotypes])

\* the column header line, checked to ch: the loop ends
ColumnHeaderLine(st, ch) ==
    [st EXCEPT !.foundHeader = TRUE, !.readErr = ch.readErr,
               !.h.Genotypes = ch.Genotypes]

\* one iteration of the loop on the line read
HeaderStep(st, line, rerr) ==
    IF st.LineNumber = 1 THEN FirstLine(st, parseLineToMeta(line))
    ELSE IF HasPrefix(line, <<"#", "#">>) THEN MetaLine(st, parseLineToMeta(line))
    ELSE IF HasPrefix(line, <<"#">>)
    THEN ColumnHeaderLine(st, ColumnHeader(Split(line, "\t"), rerr))
    ELSE st

\* LineNumber++ and line, readErr = buf.ReadBytes('\n'), read as rb
HeaderRead(st, rb) ==
    HeaderStep([st EXCEPT !.buf = rb.rest, !.LineNumber = @ + 1,
                          !.line = rb.line, !.readErr = rb.err],
               rb.line, rb.err)

HeaderLoop(st) ==
    IF st.readErr # NilErr THEN st ELSE HeaderRead(st, ReadBytes(st.buf, "\n"))

\* the end of NewReader: what it returns for the loop's final line and error
NewReaderReturn(st, line, readErr) ==
    IF readErr # NilErr /\ Len(line) = 0 /\ readErr = EOF
    THEN [reader |-> Nil, err |-> EOF, heap |-> <<>>]
    ELSE IF readErr # NilErr /\ Len(line) > 0 /\ readErr # EOF
    THEN [reader |-> Nil, err |-> readErr, heap |-> <<>>]
    ELSE [reader |-> [buf |-> st.buf, Header |-> st.h, LineNumber |-> st.LineNumber],
          err |-> NilErr, heap |-> st.heap]

\* the test "if !foundHeader" after the loop
AfterHeaderLoop(st) ==
    NewReaderReturn(st, st.line, IF ~st.foundHeader THEN NoHeaderLine ELSE st.readErr)

\* NewReader(r): the Reader and the error returned for the stream r, with the
\* Meta objects the header points to
NewReaderOf(r) ==
    AfterHeaderLoop(HeaderLoop([buf |-> r, LineNumber |-> 0, line |-> <<>>,
                                readErr |-> NilErr, foundHeader |-> FALSE,
                                h |-> NewHeader, heap |-> <<>>]))

(***************************************************************************)
(* Numbers.                                                                *)
(***************************************************************************)
Digits == {"0", "1", "2", "3", "4", "5", "6", "7", "8", "9"}

\* the value of one decimal digit
DigitVal(c) ==
    CASE c = "0" -> 0 [] c = "1" -> 1 [] c = "2" -> 2 [] c = "3" -> 3
      [] c = "4" -> 4 [] c = "5" -> 5 [] c = "6" -> 6 [] c = "7" -> 7
      [] c = "8" -> 8 [] c = "9" -> 9

\* whether s is a non-empty string of decimal digits
IsDigits(s) == Len(s) > 0 /\ \A i \in 1..Len(s) : s[i] \in Digits

\* the value of a string of decimal digits
DecVal(s) ==
    LET RECURSIVE go(_, _)
        go(i, acc) == IF i > Len(s) THEN acc ELSE go(i + 1, 10 * acc + DigitVal(s[i]))
    IN go(1, 0)

\* strconv.ParseUint(s, 10, 64) with the error dropped: 0 on a syntax error
\* (the strings of the model stay far below 2^64)
ParseUint(s) == IF IsDigits(s) THEN DecVal(s) ELSE 0

\* strconv.Atoi(s) with the error dropped: an optional sign and decimal
\* digits, 0 on a syntax error
Atoi(s) ==
    IF Len(s) > 0 /\ s[1] \in {"+", "-"}
    THEN IF IsDigits(Tail(s))
         THEN IF s[1] = "-" THEN 0 - DecVal(Tail(s)) ELSE DecVal(Tail(s))
         ELSE 0
    ELSE IF IsDigits(s) THEN DecVal(s) ELSE 0

\* a float64 that a short decimal numeral denotes exactly enough: m * 10^e
\* with m not a multiple of 10, or zero
Float(m, e) ==
    LET RECURSIVE norm(_, _)
        norm(mm, ee) == IF mm # 0 /\ mm % 10 = 0 THEN norm(mm \div 10, ee + 1)
                        ELSE [m |-> mm, e |-> ee]
    IN IF m = 0 THEN [m |-> 0, e |-> 0] ELSE norm(m, e)

\* strconv.ParseFloat(s, 64) with the error dropped, on decimal numerals
\* [sign] digits [. digits] [(e|E) [sign] digits]: 0 on a syntax error
ParseFloat(s) ==
    LET RECURSIVE findE(_)
        findE(i) == IF i > Len(s) THEN 0
                    ELSE IF s[i] \in {"e", "E"} THEN i ELSE findE(i + 1)
        ePos == findE(1)
        mant0 == IF ePos = 0 THEN s ELSE SubSeq(s, 1, ePos - 1)
        expo0 == IF ePos = 0 THEN <<>> ELSE SubSeq(s, ePos + 1, Len(s))
        neg == Len(mant0) > 0 /\ mant0[1] = "-"
        mant == IF Len(mant0) > 0 /\ mant0[1] \in {"+", "-"} THEN Tail(mant0) ELSE mant0
        parts == Split(mant, ".")
        intp == parts[1]
        frac == IF Len(parts) = 2 THEN parts[2] ELSE <<>>
        mantOk == /\ Len(parts) <= 2
                  /\ Len(intp) + Len(frac) > 0
                  /\ \A i \in 1..Len(intp) : intp[i] \in Digits
                  /\ \A i \in 1..Len(frac) : frac[i] \in Digits
        expNeg == Len(expo0) > 0 /\ expo0[1] = "-"
        expo == IF Len(expo0) > 0 /\ expo0[1] \in {"+", "-"} THEN Tail(expo0) ELSE expo0
        expOk == ePos = 0 \/ IsDigits(expo)
        ev == IF ePos = 0 THEN 0 ELSE IF expNeg THEN 0 - DecVal(expo) ELSE DecVal(expo)
        mv == DecVal(intp \o frac)
    IN IF mantOk /\ expOk
       THEN Float(IF neg THEN 0 - mv ELSE mv, ev - Len(frac))
       ELSE Float(0, 0)

\* bytes.IndexAny(s, chars) != -1
ContainsAny(s, chars) == \E i \in 1..Len(s) : s[i] \in chars

(***************************************************************************)
(* The record reader.                                                      *)
(***************************************************************************)

\* the zero Feature
ZeroFeature ==
    [Chrom |-> <<>>, Pos |-> 0, Id |-> <<>>, Ref |-> <<>>, Alt |-> <<>>,
     Qual |-> Float(0, 0), QualFormat |-> "", Filter |-> <<>>,
     Info |-> EmptyMap, InfoOrder |-> EmptyMap, Format |-> EmptyMap,
     Genotypes |-> <<>>, ParsedGenotypes |-> EmptyMap]

\* mutant of BadFieldCount: the test flen == 9 is dropped
BadFieldCount_WithoutNine(flen, nGenotypes) ==
    flen < 8 \/ (flen >= 9 /\ flen # nGenotypes + 1 + 8)

\* the field count test of parseFeature: TRUE when the line is refused
BadFieldCount(flen, nGenotypes) ==
    flen < 8 \/ flen = 9 \/ (flen >= 10 /\ flen # nGenotypes + 1 + 8)

\* the INFO loop of parseFeature: Info and InfoOrder from the INFO column
ParseInfo(field) ==
    LET infos == Split(field, ";")
        RECURSIVE go(_, _, _)
        go(i, info, order) ==
            IF i > Len(infos) THEN [Info |-> info, InfoOrder |-> order]
            ELSE LET curInf == Split(infos[i], "=")
                 IN go(i + 1,
                       MapPut(info, curInf[1],
                              IF Len(curInf) = 1 THEN curInf[1] ELSE curInf[2]),
                       MapPut(order, curInf[1], i - 1))
    IN go(1, EmptyMap, EmptyMap)

\* the FORMAT loop of parseFeature: sub-field name -> position
ParseFormat(field) ==
    LET fmts == Split(field, ":")
        RECURSIVE go(_, _)
        go(i, m) == IF i > Len(fmts) THEN m ELSE go(i + 1, MapPut(m, fmts[i], i - 1))
    IN go(1, EmptyMap)

\* the Feature parseFeature builds from the trimmed fields of a line, with
\* Info and InfoOrder as parsed to inf
BuildFeature(fields, inf) ==
    [ZeroFeature EXCEPT
        !.Chrom = fields[1],
        !.Pos = ParseUint(fields[2]),
        !.Id = fields[3],
        !.Ref = fields[4],
        !.Alt = Split(fields[5], ","),
        !.Qual = ParseFloat(fields[6]),
        !.QualFormat = IF ContainsAny(fields[6], {"e", "E"}) THEN "e" ELSE "f",
        !.Filter = fields[7],
        !.Info = inf.Info,
        !.InfoOrder = inf.InfoOrder,
        !.Format = IF Len(fields) > 8 THEN ParseFormat(fields[9]) ELSE EmptyMap,
        !.Genotypes = IF Len(fields) > 8 THEN SubSeq(fields, 10, Len(fields)) ELSE <<>>]

\* the loop of parseFeature that trims every field
TrimFields(fields) == [i \in 1..Len(fields) |-> TrimSpace(fields[i])]

\* parseFeature from the field count test on, fields being trimmed
ParseFields(fields, nGenotypes, rerr) ==
    IF BadFieldCount(Len(fields), nGenotypes)
    THEN [feat |-> Nil, err |-> TooFewColumns]
    ELSE [feat |-> BuildFeature(fields, ParseInfo(fields[8])), err |-> rerr]

\* parseFeature after line, readErr = gr.buf.ReadBytes('\n'), read as rb; the
\* stream is held in memory, so that io.EOF is the only read error
ParseLine(gr, rb) ==
    IF rb.err # NilErr /\ Len(rb.line) = 0 /\ rb.err = EOF
    THEN [feat |-> Nil, err |-> EOF]
    ELSE ParseFields(TrimFields(Split(rb.line, "\t")),
                     Cardinality(DOMAIN gr.Header.Genotypes), rb.err)

\* mutant of ReaderAfter: the bytes after the line read are dropped
ReaderAfter_DropRest(gr, rb) == [gr EXCEPT !.buf = <<>>, !.LineNumber = @ + 1]

\* the Reader after parseFeature has read rb
ReaderAfter(gr, rb) == [gr EXCEPT !.buf = rb.rest, !.LineNumber = @ + 1]

(***************************************************************************)
(* The lazy genotype decoder.                                              *)
(***************************************************************************)

\* a Go runtime panic (index out of range)
Panic == "panic"

\* mutant of DecodeGT: the test for "." is dropped
DecodeGT_WithoutDot(value) ==
    LET byBar == Split(value, "|")
        gt == IF Len(byBar) > 1 THEN byBar ELSE Split(value, "/")
    IN [PhasedGT |-> Len(byBar) > 1, GT |-> [i \in 1..Len(gt) |-> Atoi(gt[i])]]

\* the GT branch of SingleGenotype: PhasedGT and GT from the GT sub-field
DecodeGT(value) ==
    LET byBar == Split(value, "|")
        gt == IF Len(byBar) > 1 THEN byBar ELSE Split(value, "/")
    IN [PhasedGT |-> Len(byBar) > 1,
        GT |-> [i \in 1..Len(gt) |-> IF gt[i] = <<".">> THEN 0 - 1 ELSE Atoi(gt[i])]]

\* the Genotype that SingleGenotype builds for sample gen from the pieces
\* info of its raw string (every Format position is within info)
BuildGenotype(gen, format, info) ==
    LET d == IF sGT \in DOMAIN format
             THEN DecodeGT(info[format[sGT] + 1])
             ELSE [PhasedGT |-> FALSE, GT |-> <<>>]
    IN [Id |-> gen, GT |-> d.GT, PhasedGT |-> d.PhasedGT,
        Fields |-> [key \in DOMAIN format |-> info[format[key] + 1]]]

\* mutant of SingleGenotypeOf: the look-up in ParsedGenotypes is dropped
SingleGenotypeOf_WithoutCache(f, gen, order, heap) ==
    IF gen \notin DOMAIN order
    THEN [ret |-> Nil, err |-> GenotypeNotInFile, f |-> f, heap |-> heap]
    ELSE IF order[gen] >= Len(f.Genotypes)
    THEN [ret |-> Nil, err |-> Panic, f |-> f, heap |-> heap]
    ELSE LET info == Split(f.Genotypes[order[gen] + 1], ":")
         IN IF Len(info) # Cardinality(DOMAIN f.Format)
            THEN [ret |-> Nil, err |-> MalformedGenotypeData, f |-> f, heap |-> heap]
            ELSE IF \E key \in DOMAIN f.Format : f.Format[key] >= Len(info)
            THEN [ret |-> Nil, err |-> Panic, f |-> f, heap |-> heap]
            ELSE [ret |-> Ptr(Len(heap) + 1), err |-> NilErr,
                  f |-> [f EXCEPT !.ParsedGenotypes = MapPut(@, gen, Ptr(Len(heap) + 1))],
                  heap |-> Append(heap, BuildGenotype(gen, f.Format, info))]

\* mutant of SingleGenotypeOf: ParsedGenotypes is looked up before order
SingleGenotypeOf_CacheFirst(f, gen, order, heap) ==
    IF gen \in DOMAIN f.ParsedGenotypes
    THEN [ret |-> f.ParsedGenotypes[gen], err |-> NilErr, f |-> f, heap |-> heap]
    ELSE SingleGenotypeOf_WithoutCache(f, gen, order, heap)

\* mutant of SingleGenotypeOf: the object is stored before the piece count is
\* tested
SingleGenotypeOf_StoreFirst(f, gen, order, heap) ==
    LET res == SingleGenotypeOf_CacheFirst(f, gen, order, heap)
    IN IF gen \notin DOMAIN order THEN [res EXCEPT !.ret = Nil, !.err = GenotypeNotInFile]
       ELSE IF res.err = MalformedGenotypeData
       THEN [res EXCEPT !.f.ParsedGenotypes = MapPut(@, gen, Ptr(Len(heap) + 1)),
                        !.heap = Append(heap, [Id |-> gen, GT |-> <<>>, PhasedGT |-> FALSE,
                                               Fields |-> EmptyMap])]
       ELSE res

\* f.SingleGenotype(gen, order) with the Genotype objects allocated so far in
\* heap: the pointer returned (or Nil), the error (or Panic), the Feature and
\* the heap afterwards
SingleGenotypeOf(f, gen, order, heap) ==
    IF gen \notin DOMAIN order
    THEN [ret |-> Nil, err |-> GenotypeNotInFile, f |-> f, heap |-> heap]
    ELSE IF gen \in DOMAIN f.ParsedGenotypes
    THEN [ret |-> f.ParsedGenotypes[gen], err |-> NilErr, f |-> f, heap |-> heap]
    ELSE IF order[gen] >= Len(f.Genotypes)
    THEN [ret |-> Nil, err |-> Panic, f |-> f, heap |-> heap]
    ELSE LET info == Split(f.Genotypes[order[gen] + 1], ":")
         IN IF Len(info) # Cardinality(DOMAIN f.Format)
            THEN [ret |-> Nil, err |-> MalformedGenotypeData, f |-> f, heap |-> heap]
            ELSE IF \E key \in DOMAIN f.Format : f.Format[key] >= Len(info)
            THEN [ret |-> Nil, err |-> Panic, f |-> f, heap |-> heap]
            ELSE [ret |-> Ptr(Len(heap) + 1), err |-> NilErr,
                  f |-> [f EXCEPT !.ParsedGenotypes = MapPut(@, gen, Ptr(Len(heap) + 1))],
                  heap |-> Append(heap, BuildGenotype(gen, f.Format, info))]

(***************************************************************************)
(* The positions of a record.                                              *)
(***************************************************************************)

\* the uint64 value 2^64 - k, which a subtraction that wraps around yields,
\* written as the negative number -k (the values near 2^64 are written by
\* their distance below it, the small ones as themselves)
Wrapped(k) == 0 - k

\* the uint64 subtraction a - b
Sub64(a, b) == IF a >= b THEN a - b ELSE Wrapped(b - a)

\* mutant of StartZero: the test Pos == 0 is dropped
StartZero_WithoutZeroTest(f) == Sub64(f.Pos, 1)

\* Feature.StartZero, EndZero, StartOne, EndOne
StartZero(f) == IF f.Pos = 0 THEN 0 ELSE Sub64(f.Pos, 1)
EndZero(f) == StartZero(f)
StartOne(f) == f.Pos
EndOne(f) == StartOne(f)

\* the position method named fn
PositionOf(f, fn) ==
    CASE fn = "StartZero" -> StartZero(f)
      [] fn = "EndZero" -> EndZero(f)
      [] fn = "StartOne" -> StartOne(f)
      [] fn = "EndOne" -> EndOne(f)

(***************************************************************************)
(* The directive serialiser.                                               *)
(***************************************************************************)

\* the orders in which a range over the map m can yield its keys
RangeOrders(m) ==
    LET n == Cardinality(DOMAIN m)
    IN {p \in [1..n -> DOMAIN m] : \A i, j \in 1..n : p[i] = p[j] => i = j}

\* fmt.Sprintf("%s=%s,", key, val)
KeyValComma(key, val) == key \o <<"=">> \o val \o <<",">>

\* Meta.optionalToString: the Optional entries, in the order of FieldOrder
optionalToString(m) ==
    LET fo == m.FieldOrder
        RECURSIVE go(_, _)
        go(i, b) ==
            IF i > Len(fo) THEN b
            ELSE IF fo[i] \in DOMAIN m.Optional
                 THEN go(i + 1, b \o KeyValComma(fo[i], m.Optional[fo[i]]))
                 ELSE go(i + 1, b)
    IN go(1, <<>>)

\* the first step of Meta.String: the Meta with the default FieldOrder when
\* it has none, the range over Optional yielding its keys in the order keys
DefaultFieldOrder(m, keys) ==
    IF Len(m.FieldOrder) = 0
    THEN [m EXCEPT !.FieldOrder =
             <<sID, sNumber, sType, sDescription, sURL>>
             \o [i \in 1..Len(keys) |-> m.Optional[keys[i]]]]
    ELSE m

\* the recognized fields of Meta.String, in the order of FieldOrder
RecognizedToString(m) ==
    LET fo == m.FieldOrder
        RECURSIVE go(_, _)
        go(i, b) ==
            IF i > Len(fo) THEN b
            ELSE LET field == fo[i]
                     val == CASE field = sID -> m.Id
                              [] field = sNumber -> m.Number
                              [] field = sType -> m.Type
                              [] field = sDescription -> m.Description
                              [] field = sURL -> m.Url
                              [] OTHER -> <<>>
                 IN go(i + 1, IF val # <<>> THEN b \o KeyValComma(field, val) ELSE b)
    IN go(1, <<>>)

\* Meta.String with the range over Optional yielding its keys in the order
\* keys: the string returned and the Meta afterwards
MetaString(m0, keys) ==
    LET m == DefaultFieldOrder(m0, keys)
        b == <<"#", "#">> \o m.FieldType \o <<"=", "<">> \o RecognizedToString(m)
        str == IF Cardinality(DOMAIN m.Optional) # 0
               THEN b \o optionalToString(m) ELSE b
    IN [str |-> TrimRight(str, {","}) \o <<">">>, m |-> m]

\* SingleValMeta.String
SingleValString(m) == <<"#", "#">> \o m.FieldType \o <<"=">> \o m.Id

\* the directive NewReader builds from one structured line
LoadParsed(pm) == LoadMeta(pm.metaValues, pm.metaOrder)
ParseDirective(line) == LoadParsed(parseLineToMeta(line))

(***************************************************************************)
(* The writer.                                                             *)
(***************************************************************************)

\* the sentinel of a QUAL column that is not provided: a reserved float
\* constant, other than zero (the largest float64, cut to eight digits)
MissingQualField == Float(17976931, 301)

\* the decimal digit of value d
DigitChar(d) ==
    CASE d = 0 -> "0" [] d = 1 -> "1" [] d = 2 -> "2" [] d = 3 -> "3"
      [] d = 4 -> "4" [] d = 5 -> "5" [] d = 6 -> "6" [] d = 7 -> "7"
      [] d = 8 -> "8" [] d = 9 -> "9"

\* the verb %d on a non-negative integer
FormatUint(n) ==
    LET RECURSIVE go(_, _)
        go(k, acc) == IF k < 10 THEN <<DigitChar(k)>> \o acc
                      ELSE go(k \div 10, <<DigitChar(k % 10)>> \o acc)
    IN go(n, <<>>)

\* k zeros
Zeros(k) == [i \in 1..k |-> "0"]

\* strconv.FormatFloat(x, 'f', -1, 64): the shortest digits of x (those of
\* x.m for the short numerals of the model), without an exponent
FormatFloatF(x) ==
    LET neg == x.m < 0
        ds == FormatUint(IF neg THEN 0 - x.m ELSE x.m)
        body == IF x.e >= 0 THEN ds \o Zeros(x.e)
                ELSE IF Len(ds) > 0 - x.e
                THEN SubSeq(ds, 1, Len(ds) + x.e) \o <<".">>
                     \o SubSeq(ds, Len(ds) + x.e + 1, Len(ds))
                ELSE <<"0", ".">> \o Zeros(0 - x.e - Len(ds)) \o ds
    IN (IF neg THEN <<"-">> ELSE <<>>) \o body

\* strconv.FormatFloat(x, 'e', -1, 64): d.ddde+xx, the exponent of two
\* digits at least
FormatFloatE(x) ==
    LET neg == x.m < 0
        ds == FormatUint(IF neg THEN 0 - x.m ELSE x.m)
        ex == IF x.m = 0 THEN 0 ELSE x.e + Len(ds) - 1
        exd == FormatUint(IF ex < 0 THEN 0 - ex ELSE ex)
    IN (IF neg THEN <<"-">> ELSE <<>>)
       \o <<ds[1]>> \o (IF Len(ds) > 1 THEN <<".">> \o Tail(ds) ELSE <<>>)
       \o <<"e", IF ex < 0 THEN "-" ELSE "+">>
       \o (IF Len(exd) < 2 THEN <<"0">> ELSE <<>>) \o exd

\* strconv.FormatFloat(x, fmt, -1, 64) for fmt 'e' and 'f'
FormatFloat(x, fmt) == IF fmt = "e" THEN FormatFloatE(x) ELSE FormatFloatF(x)

\* the list of length n that holds at index m[key] the key of map m: the
\* loops gt[val] = key and form[val] = key, and whether one of them indexes
\* beyond the list
PlaceKeys(m, n) ==
    [i \in 1..n |-> IF \E key \in DOMAIN m : m[key] = i - 1
                    THEN CHOOSE key \in DOMAIN m : m[key] = i - 1
                    ELSE <<>>]
OutOfRange(m, n) == \E key \in DOMAIN m : m[key] >= n

\* the texts WriteHeader prints around its arguments
sFileFormatEq ==
    <<"#", "#", "f", "i", "l", "e", "f", "o", "r", "m", "a", "t", "=">>
sColumns ==
    <<"#", "C", "H", "R", "O", "M", "\t", "P", "O", "S", "\t", "I", "D",
      "\t", "R", "E", "F", "\t", "A", "L", "T", "\t", "Q", "U", "A", "L",
      "\t", "F", "I", "L", "T", "E", "R", "\t", "I", "N", "F", "O">>
sFormatColumn ==
    <<"\t", "F", "O", "R", "M", "A", "T", "\t">>

\* the ##fileformat line and the ##key=value lines of WriteHeader
SingleValLines(h) ==
    sFileFormatEq \o h.FileFormat \o <<"\n">>
    \o Join([i \in 1..Len(h.SingleVals) |-> SingleValString(h.SingleVals[i]) \o <<"\n">>],
            <<>>)

\* the ##key=<key=value> lines of WriteHeader from the i-th pointer of
\* PrintOrder on: the outcomes, one for each order in which a range over
\* Optional yields its keys; Meta.String may set the FieldOrder of the Meta
RECURSIVE PrintOrderLines(_, _, _)
PrintOrderLines(order, i, acc) ==
    IF i > Len(order) THEN acc
    ELSE PrintOrderLines(order, i + 1,
            UNION {{[out |-> a.out \o MetaString(a.heap[order[i].addr], keys).str
                                \o <<"\n">>,
                     heap |-> [a.heap EXCEPT ![order[i].addr] = MetaString(@, keys).m]] :
                        keys \in RangeOrders(a.heap[order[i].addr].Optional)} :
                   a \in acc})

\* the column header line of WriteHeader
ColumnLine(h) ==
    LET n == Cardinality(DOMAIN h.Genotypes)
    IN IF n = 0 THEN [out |-> sColumns, err |-> NilErr]
       ELSE IF OutOfRange(h.Genotypes, n) THEN [out |-> sColumns, err |-> Panic]
       ELSE [out |-> sColumns \o sFormatColumn
                     \o Join(PlaceKeys(h.Genotypes, n), <<"\t">>),
             err |-> NilErr]

\* w.WriteHeader(h) with the Meta objects heap: the bytes written, the heap
\* afterwards, and Panic when gt[val] is out of range
WriteHeaderOf(h, heap) ==
    {[out |-> SingleValLines(h) \o a.out \o ColumnLine(h).out,
      heap |-> a.heap,
      err |-> ColumnLine(h).err] :
         a \in PrintOrderLines(h.PrintOrder, 1, {[out |-> <<>>, heap |-> heap]})}

\* the QUAL column of WriteFeature
QualString(f) ==
    IF f.Qual = MissingQualField THEN <<".">> ELSE FormatFloat(f.Qual, f.QualFormat)

\* the INFO entries of WriteFeature, placed by InfoOrder in a list of length
\* len(Info)
InfoList(f) ==
    [i \in 1..Cardinality(DOMAIN f.Info) |->
        IF \E key \in DOMAIN f.InfoOrder : f.InfoOrder[key] = i - 1
        THEN LET key == CHOOSE k \in DOMAIN f.InfoOrder : f.InfoOrder[k] = i - 1
                 val == MapGet(f.Info, key)
             IN IF key # val THEN key \o <<"=">> \o val ELSE key
        ELSE <<>>]

\* the eight required columns of WriteFeature, after a line terminator
RequiredColumns(f) ==
    <<"\n">> \o Join(<<f.Chrom, FormatUint(f.Pos), f.Id, f.Ref, Join(f.Alt, <<",">>),
                       QualString(f), f.Filter, Join(InfoList(f), <<";">>)>>,
                     <<"\t">>)

\* the FORMAT and sample columns of WriteFeature
GenotypeColumns(f) ==
    <<"\t">> \o Join(PlaceKeys(f.Format, Cardinality(DOMAIN f.Format)), <<":">>)
    \o <<"\t">> \o Join(f.Genotypes, <<"\t">>)

\* the record line of WriteFeature (writer.go 51-77): the bytes written, and
\* Panic when info[i] or form[val] is out of range
WriteFeatureOf(f) ==
    IF OutOfRange(f.InfoOrder, Cardinality(DOMAIN f.Info))
    THEN [out |-> <<>>, err |-> Panic]
    ELSE IF Len(f.Genotypes) = 0
    THEN [out |-> RequiredColumns(f), err |-> NilErr]
    ELSE IF OutOfRange(f.Format, Cardinality(DOMAIN f.Format))
    THEN [out |-> RequiredColumns(f), err |-> Panic]
    ELSE [out |-> RequiredColumns(f) \o GenotypeColumns(f), err |-> NilErr]

\* w.WriteFeature(f, h...) on the Writer wr with the Meta objects heap, h the
\* list of the header arguments (empty: the call has none, and h is nil):
\* the bytes written, the heap afterwards, and Panic when h[0] is a nil
\* pointer or an index is out of range
WriteFeatureWith(wr, f, h, heap) ==
    IF h # <<>> /\ wr.Header = FALSE
    THEN IF h[1] = Nil
         THEN {[out |-> <<>>, heap |-> heap, err |-> Panic]}
         ELSE {IF a.err = Panic THEN a
               ELSE [out |-> a.out \o WriteFeatureOf(f).out,
                     heap |-> a.heap,
                     err |-> WriteFeatureOf(f).err] : a \in WriteHeaderOf(h[1], heap)}
    ELSE {[out |-> WriteFeatureOf(f).out, heap |-> heap, err |-> WriteFeatureOf(f).err]}

\* the loop of WriteAll over the records f from the i-th on: each is written
\* by WriteFeature(line, nil), whose header list holds one nil pointer
RECURSIVE WriteAllLines(_, _, _, _)
WriteAllLines(wr, f, i, acc) ==
    IF i > Len(f) THEN acc
    ELSE WriteAllLines(wr, f, i + 1,
            UNION {IF a.err = Panic THEN {a}
                   ELSE {[out |-> a.out \o b.out, heap |-> b.heap, err |-> b.err] :
                            b \in WriteFeatureWith(wr, f[i], <<Nil>>, a.heap)} : a \in acc})

\* w.WriteAll(f, h...): Panic when h is empty (h[0] is out of range), the
\* header when h[0] is not nil, then the records
WriteAllOf(wr, f, h, heap) ==
    IF h = <<>> THEN {[out |-> <<>>, heap |-> heap, err |-> Panic]}
    ELSE WriteAllLines(wr, f, 1,
            IF h[1] # Nil THEN WriteHeaderOf(h[1], heap)
            ELSE {[out |-> <<>>, heap |-> heap, err |-> NilErr]})

(***************************************************************************)
(* The input streams of the model.                                         *)
(***************************************************************************)

\* bounds of the model
MaxMetaLines == 2
MaxSamples == 2
MaxRecords == 2
MaxGTLen == 3
MaxEOFReads == 2
MaxWrites == 2
MaxPos == 3
MaxBatch == 2

\* sequences over S of length lo..hi
SeqsOf(S, lo, hi) == UNION {[1..n -> S] : n \in lo..hi}

\* the sample names of the model, at most MaxSamples of them
AllSampleNames == << <<"A">>, <<"B">>, <<"C">>, <<"D">> >>
SampleNames == {AllSampleNames[i] : i \in 1..MaxSamples}

\* a structured directive line ##fieldType=<body>
DirectiveLine(fieldType, body) ==
    <<"#", "#">> \o fieldType \o <<"=", "<">> \o body \o <<">">>

\* first lines: a simple fileformat directive, a structured one, a simple
\* directive of another type, and a line with no '='
GoodFirstLine == <<"#", "#">> \o sfileformat \o <<"=", "v", "4">>
FirstLines ==
    {GoodFirstLine,
     DirectiveLine(sfileformat, <<"I", "D", "=", "v", "4">>),
     <<"#", "#", "s", "o", "u", "r", "c", "e", "=", "x">>,
     <<"#", "#">> \o sfileformat}

\* meta lines: one structured directive per category of the table, one with a
\* lower-case type, a simple directive, directives with several keys (an
\* unrecognized key first, and last; a key twice; the key FieldType), and a
\* line with no '='
MetaLines ==
    {DirectiveLine(ft, <<"I", "D", "=", "a">>) :
        ft \in {sMETA, sINFO, sFILTER, sFORMAT, sALT, sSAMPLE, sassembly, scontig,
                spedigree, <<"i", "n", "f", "o">>}}
    \cup {<<"#", "#", "s", "o", "u", "r", "c", "e", "=", "x">>,
          DirectiveLine(sINFO, <<"I", "D", "=", "a", ",", "N", "u", "m", "b", "e", "r", "=", "1">>),
          DirectiveLine(sINFO, <<"X", "=", "1", ",", "I", "D", "=", "a">>),
          DirectiveLine(sINFO, <<"I", "D", "=", "a", ",", "X", "=", "1">>),
          DirectiveLine(sINFO, <<"I", "D", "=", "a", ",", "I", "D", "=", "b">>),
          DirectiveLine(sINFO, <<"F", "i", "e", "l", "d", "T", "y", "p", "e", "=", "x", ",",
                                 "I", "D", "=", "a">>),
          <<"#", "#", "b", "a", "d">>}

\* the first seven columns of the column header line
HeaderBase ==
    <<"#", "C", "H", "R", "O", "M", "\t", "P", "O", "S", "\t", "I", "D", "\t",
      "R", "E", "F", "\t", "A", "L", "T", "\t", "Q", "U", "A", "L", "\t",
      "F", "I", "L", "T", "E", "R">>

\* a line of tab-separated fields
TabLine(fields) == Join(fields, <<"\t">>)

\* the column header line with eight columns, and the well-formed one for
\* the first n sample names
Header8 == TabLine(<<HeaderBase, sINFO>>)
GoodHeader(n) ==
    IF n = 0 THEN Header8
    ELSE TabLine(<<HeaderBase, sINFO, sFORMAT>> \o SubSeq(AllSampleNames, 1, n))

\* column header lines of 7, 8, 9 and 10.. columns, the ninth FORMAT or
\* not, the sample names distinct or repeated
ColumnHeaderLines ==
    {HeaderBase, Header8,
     TabLine(<<HeaderBase, sINFO, sFORMAT>>),
     TabLine(<<HeaderBase, sINFO, <<"A">> >>)}
    \cup {TabLine(<<HeaderBase, sINFO, ninth>> \o names) :
            ninth \in {sFORMAT, <<"X">>}, names \in SeqsOf(SampleNames, 1, MaxSamples)}

\* the first seven columns of a record line
RecordBase ==
    <<"2", "0", "\t", "7", "\t", "r", "s", "\t", "G", "\t", "A", ",", "T", "\t",
      "2", "9", "\t", "P", "A", "S", "S">>
DefaultInfo == <<"N", "S", "=", "3", ";", "D", "B">>
DefaultGenotype == <<"0", "|", "1">>

\* a record line of k tab-separated fields (k = 1: the empty line)
CountLine(k) ==
    IF k = 1 THEN <<>>
    ELSE TabLine(<<RecordBase>>
                 \o (IF k >= 8 THEN <<DefaultInfo>> ELSE <<>>)
                 \o (IF k >= 9 THEN <<sGT>> ELSE <<>>)
                 \o [i \in 1..(k - 9) |-> DefaultGenotype])
CountLines == {CountLine(k) : k \in {1} \cup 7..(9 + MaxSamples + 1)}

\* a record line with a FORMAT column and sample columns
GenoLine(format, genotypes) ==
    TabLine(<<RecordBase, DefaultInfo, format>> \o genotypes)

\* GT sub-field values: every string over the alphabet up to MaxGTLen
GTAlphabet == {"0", "1", ".", "|", "/"}
GTStrings == SeqsOf(GTAlphabet, 1, MaxGTLen)

sGTDP == <<"G", "T", ":", "D", "P">>
sDPGT == <<"D", "P", ":", "G", "T">>

\* record lines for a header with one sample
GenoLines1 ==
    {GenoLine(sGT, <<g>>) : g \in GTStrings}
    \cup {GenoLine(sGTDP, <<g \o <<":", "5">> >>) : g \in { <<"0", "|", "1">>, <<"0", "/", "1">> }}
    \cup {GenoLine(sDPGT, << <<"5", ":", ".">> >>),
          GenoLine(<<"D", "P">>, << <<"5">> >>),
          GenoLine(sGTDP, << <<"0", "|", "1">> >>),
          GenoLine(sGT, << <<"0", ":", "1">> >>),
          GenoLine(<<"G", "T", ":", "G", "T">>, << <<"0", "|", "1">> >>)}

\* record lines for a header with two samples
GenoLines2 ==
    {GenoLine(sGT, << <<"0", "|", "1">>, <<".", "/", ".">> >>),
     GenoLine(sGTDP, << <<"0", "|", "1", ":", "5">>, <<"1">> >>),
     GenoLine(sGTDP, << <<"1">>, <<"0", "/", "1", ":", "5">> >>)}

\* the stream holding the lines, each but the last followed by a line
\* terminator, the last one followed by one when terminated
StreamOf(lines, terminated) ==
    Join(lines, <<"\n">>) \o (IF terminated THEN <<"\n">> ELSE <<>>)

OneRecord == CountLine(8)

\* streams whose first line varies
FirstLineStreams ==
    {StreamOf(first \o rest, t) :
        first \in {<<>>} \cup {<<l>> : l \in FirstLines},
        rest \in {<<>>, <<Header8>>, <<DirectiveLine(sINFO, <<"I", "D", "=", "a">>)>>,
                  <<OneRecord>>},
        t \in BOOLEAN}

\* streams whose meta lines vary, with and without a column header line
MetaStreams ==
    {StreamOf(<<GoodFirstLine>> \o metas \o hdr, t) :
        metas \in SeqsOf(MetaLines, 0, MaxMetaLines),
        hdr \in {<<>>, <<Header8>>},
        t \in BOOLEAN}

\* streams whose column header line varies, ending the stream or followed
\* by one record line
ColumnHeaderStreams ==
    {StreamOf(<<GoodFirstLine, hdr>> \o body, t) :
        hdr \in ColumnHeaderLines, body \in {<<>>, <<OneRecord>>}, t \in BOOLEAN}

\* streams with a well-formed header for n samples and record lines of
\* every field count
RecordStreams ==
    {StreamOf(<<GoodFirstLine, GoodHeader(n)>> \o recs, t) :
        n \in 0..MaxSamples, recs \in SeqsOf(CountLines, 1, MaxRecords), t \in BOOLEAN}

\* streams with one record line whose sample columns vary
GenotypeStreams ==
    {StreamOf(<<GoodFirstLine, GoodHeader(1), rec>>, t) :
        rec \in GenoLines1, t \in BOOLEAN}
    \cup {StreamOf(<<GoodFirstLine, GoodHeader(2), rec>>, FALSE) : rec \in GenoLines2}

\* the first five columns of a record line, and the record line of eight
\* columns with the QUAL column qual and the INFO column info
RecordPrefix == <<"2", "0", "\t", "7", "\t", "r", "s", "\t", "G", "\t", "A", ",", "T">>
RecordWith(qual, info) == TabLine(<<RecordPrefix, qual, <<"P", "A", "S", "S">>, info>>)

\* INFO columns: pairs and flags, a repeated flag, a repeated key, a value
\* with an '=' in it, the empty column
InfoFields ==
    {DefaultInfo,
     <<"D", "B", ";", "N", "S", "=", "3">>,
     <<"A", "=", "1", ";", "B", "=", "2", ";", "C">>,
     <<"D", "B">>,
     <<"D", "B", ";", "D", "B">>,
     <<"A", "=", "1", ";", "A", "=", "2">>,
     <<"A", "=", "1", "=", "2", ";", "D", "B">>,
     <<"X", "=", "X">>,
     <<>>}

\* QUAL columns: numerals in fixed and exponent notation, the missing
\* marker, a text that is no numeral
QualFields ==
    {<<"2", "9">>, <<"0">>, <<"2", ".", "5">>, <<"1", "e", "3">>,
     <<"2", ".", "5", "0", "E", "-", "1">>, <<".">>, <<"x">>}

\* streams with one record line of eight columns whose QUAL or INFO column
\* varies
FieldLines ==
    {RecordWith(q, DefaultInfo) : q \in QualFields}
    \cup {RecordWith(<<"2", "9">>, i) : i \in InfoFields}
FieldStreams ==
    {StreamOf(<<GoodFirstLine, Header8, rec>>, t) : rec \in FieldLines, t \in BOOLEAN}

\* directives a caller builds by hand: of type INFO, each recognized field
\* set or not, with no, one or two Optional entries (a value that is no key, a
\* value that is its own key, values that are each other's keys, a value that
\* is a recognized key), without FieldOrder or with one
HandOptionals ==
    {EmptyMap,
     MapPut(EmptyMap, <<"X">>, <<"1">>),
     MapPut(EmptyMap, <<"X">>, <<"X">>),
     MapPut(MapPut(EmptyMap, <<"X">>, <<"Y">>), <<"Y">>, <<"X">>),
     MapPut(MapPut(EmptyMap, <<"X">>, <<"1">>), <<"Y">>, <<"2">>),
     MapPut(EmptyMap, <<"X">>, sID)}
HandFieldOrders == {<<>>, <<sID>>, <<sNumber, sID, <<"X">> >>}
HandMetas ==
    {[FieldType |-> sINFO, Id |-> id, Number |-> number, Type |-> <<>>,
      Description |-> description, Url |-> url, Optional |-> optional,
      FieldOrder |-> order] :
        id \in {<<>>, <<"a">>}, number \in {<<>>, <<"1">>},
        description \in {<<>>, <<"d">>}, url \in {<<>>, <<"u">>},
        optional \in HandOptionals, order \in HandFieldOrders}

\* records a caller builds by hand: every position up to MaxPos
HandFeatures == {[ZeroFeature EXCEPT !.Pos = pos] : pos \in 0..MaxPos}

Streams ==
    FirstLineStreams \cup MetaStreams \cup ColumnHeaderStreams \cup RecordStreams
    \cup GenotypeStreams \cup FieldStreams

(***************************************************************************)
(* The state machine: a caller opens a Reader on a stream, reads records   *)
(* and decodes genotypes of the record it holds.                           *)
(***************************************************************************)
VARIABLES
    stream,     \* the bytes NewReader is given
    reader,     \* the *Reader that NewReader returned (Nil before, and on failure)
    metaHeap,   \* the Meta objects the Header points to
    feat,       \* the *Feature the last Read returned (Nil: none)
    genoHeap,   \* the Genotype objects decoded from feat
    ret,        \* the value the last call returned (SingleGenotype: the *Genotype)
    err,        \* the error the last call returned
    call,       \* the last call and its arguments
    returned,   \* sample name -> the pointers SingleGenotype returned for it on feat
    w,          \* the *Writer: the bytes written to it and its Header flag
    writes      \* the number of calls made on the Writer

vars == <<stream, reader, metaHeap, feat, genoHeap, ret, err, call, returned, w, writes>>

\* reads are capped: LineNumber grows with every Read, also at end of stream
MaxLineNumber == 2 + MaxMetaLines + MaxRecords + MaxEOFReads

\* the sample-index maps a caller passes to SingleGenotype: the header's,
\* and a map naming the first sample name of the model at index 0
Orders(h) == {h.Genotypes, MapPut(EmptyMap, AllSampleNames[1], 0)}

\* the names a caller asks for: the keys of the header's map and the first
\* two sample names of the model
Names(h) == DOMAIN h.Genotypes \cup {AllSampleNames[1], AllSampleNames[2]}

Init ==
    /\ stream \in Streams
    /\ reader = Nil
    /\ metaHeap = <<>>
    /\ feat = Nil
    /\ genoHeap = <<>>
    /\ ret = Nil
    /\ err = NilErr
    /\ call = [op |-> "none"]
    /\ returned = EmptyMap
    /\ w = [buf |-> <<>>, Header |-> FALSE]
    /\ writes = 0

\* r, err := NewReader(strings.NewReader(stream))
NewReader ==
    /\ call.op = "none"
    /\ \E res \in {NewReaderOf(stream)} :
          /\ reader' = res.reader
          /\ metaHeap' = res.heap
          /\ err' = res.err
    /\ call' = [op |-> "NewReader"]
    /\ UNCHANGED <<stream, feat, genoHeap, ret, returned, w, writes>>

\* feat, err := reader.Read(); the caller lets go of the Feature it held
Read ==
    /\ reader # Nil
    /\ err # Panic
    /\ reader.LineNumber < MaxLineNumber
    /\ \E rb \in {ReadBytes(reader.buf, "\n")} :
          /\ reader' = ReaderAfter(reader, rb)
          /\ call' = [op |-> "Read", line |-> rb.line]
          /\ \E res \in {ParseLine(reader, rb)} :
                /\ feat' = res.feat
                /\ err' = res.err
    /\ genoHeap' = <<>>
    /\ ret' = Nil
    /\ returned' = EmptyMap
    /\ UNCHANGED <<stream, metaHeap, w, writes>>

\* ret, err := feat.SingleGenotype(gen, order)
SingleGenotype(gen, order) ==
    /\ feat # Nil
    /\ err # Panic
    /\ \E res \in {SingleGenotypeOf(feat, gen, order, genoHeap)} :
          /\ feat' = res.f
          /\ genoHeap' = res.heap
          /\ ret' = res.ret
          /\ err' = res.err
          /\ returned' = IF res.err = NilErr
                         THEN MapPut(returned, gen,
                                     (IF gen \in DOMAIN returned THEN returned[gen] ELSE {})
                                     \cup {res.ret})
                         ELSE returned
    /\ call' = [op |-> "SingleGenotype", gen |-> gen, order |-> order]
    /\ UNCHANGED <<stream, reader, metaHeap, w, writes>>

Next ==
    \/ NewReader
    \/ Read
    \/ /\ reader # Nil
       /\ \E gen \in Names(reader.Header) : \E order \in Orders(reader.Header) :
             SingleGenotype(gen, order)

Spec == Init /\ [][Next]_vars

\* w.WriteHeader(reader.Header)
WriteHeader ==
    /\ reader # Nil
    /\ err # Panic
    /\ writes < MaxWrites
    /\ \E res \in WriteHeaderOf(reader.Header, metaHeap) :
          /\ w' = [w EXCEPT !.buf = @ \o res.out]
          /\ metaHeap' = res.heap
          /\ err' = res.err
    /\ writes' = writes + 1
    /\ call' = [op |-> "WriteHeader"]
    /\ UNCHANGED <<stream, reader, feat, genoHeap, ret, returned>>

\* the header arguments a caller can pass: none, a nil pointer, the header
\* of the Reader
HeaderArgs ==
    {<<>>, <<Nil>>} \cup (IF reader # Nil THEN {<<reader.Header>>} ELSE {})

\* the lists of records a caller can pass to WriteAll: the record it holds,
\* up to MaxBatch times
Batches ==
    IF feat = Nil THEN {<<>>} ELSE {[i \in 1..n |-> feat] : n \in 0..MaxBatch}

\* w.WriteFeature(feat, h...)
WriteFeature(h) ==
    /\ feat # Nil
    /\ err # Panic
    /\ writes < MaxWrites
    /\ \E res \in WriteFeatureWith(w, feat, h, metaHeap) :
          /\ w' = [w EXCEPT !.buf = @ \o res.out]
          /\ metaHeap' = res.heap
          /\ err' = res.err
    /\ writes' = writes + 1
    /\ call' = [op |-> "WriteFeature", h |-> h]
    /\ UNCHANGED <<stream, reader, feat, genoHeap, ret, returned>>

\* w.WriteAll(f, h...)
WriteAll(f, h) ==
    /\ err # Panic
    /\ writes < MaxWrites
    /\ \E res \in WriteAllOf(w, f, h, metaHeap) :
          /\ w' = [w EXCEPT !.buf = @ \o res.out]
          /\ metaHeap' = res.heap
          /\ err' = res.err
    /\ writes' = writes + 1
    /\ call' = [op |-> "WriteAll", f |-> f, h |-> h]
    /\ UNCHANGED <<stream, reader, feat, genoHeap, ret, returned>>

\* a caller that reads a stream and writes what it read to a Writer
NextW ==
    \/ NewReader
    \/ Read
    \/ WriteHeader
    \/ \E h \in HeaderArgs : WriteFeature(h)
    \/ \E f \in Batches : \E h \in HeaderArgs : WriteAll(f, h)

SpecW == Init /\ [][NextW]_vars

\* a caller holds a directive and a record it has built by hand
InitP ==
    /\ stream = <<>>
    /\ reader = Nil
    /\ metaHeap \in {<<m>> : m \in HandMetas}
    /\ feat \in HandFeatures
    /\ genoHeap = <<>>
    /\ ret = Nil
    /\ err = NilErr
    /\ call = [op |-> "none"]
    /\ returned = EmptyMap
    /\ w = [buf |-> <<>>, Header |-> FALSE]
    /\ writes = 0

\* ret := m.String() on the directive held, the range over Optional yielding
\* its keys in the order keys
String(keys) ==
    /\ \E res \in {MetaString(metaHeap[1], keys)} :
          /\ ret' = res.str
          /\ metaHeap' = <<res.m>>
    /\ call' = [op |-> "String", m |-> metaHeap[1]]
    /\ UNCHANGED <<stream, reader, feat, genoHeap, err, returned, w, writes>>

\* ret := feat.StartZero(), EndZero(), StartOne() or EndOne()
Position(fn) ==
    /\ ret' = PositionOf(feat, fn)
    /\ call' = [op |-> "Position", fn |-> fn]
    /\ UNCHANGED <<stream, reader, metaHeap, feat, genoHeap, err, returned, w, writes>>

NextP ==
    \/ \E keys \in RangeOrders(metaHeap[1].Optional) : String(keys)
    \/ \E fn \in {"StartZero", "EndZero", "StartOne", "EndOne"} : Position(fn)

SpecP == InitP /\ [][NextP]_vars

(***************************************************************************)
(* The text of the stream, as the claims speak of it: its lines without    *)
(* their terminators, the header section, the column header line.          *)
(***************************************************************************)

\* the lines of the stream, without their terminators
SourceLines ==
    LET pieces == Split(stream, "\n")
    IN IF pieces[Len(pieces)] = <<>> THEN SubSeq(pieces, 1, Len(pieces) - 1)
       ELSE pieces

\* whether byte c occurs in l
Contains(l, c) == \E i \in 1..Len(l) : l[i] = c

\* a line starting with ##, and a line starting with exactly one #
IsMetaLine(l) == Len(l) >= 2 /\ l[1] = "#" /\ l[2] = "#"
IsColumnHeaderLine(l) == Len(l) >= 1 /\ l[1] = "#" /\ ~IsMetaLine(l)

\* the position of the first '=' of l (0: none)
FirstEq(l) ==
    IF Contains(l, "=") THEN CHOOSE i \in 1..Len(l) : l[i] = "=" /\ \A j \in 1..(i - 1) : l[j] # "="
    ELSE 0

\* a structured directive ##type=<...> and a simple one ##type=value
IsStructuredLine(l) ==
    IsMetaLine(l) /\ FirstEq(l) > 0 /\ FirstEq(l) < Len(l) /\ l[FirstEq(l) + 1] = "<"
IsSimpleLine(l) == IsMetaLine(l) /\ FirstEq(l) > 0 /\ ~IsStructuredLine(l)

\* the type of a directive line: the text between ## and the first '='
LineFieldType(l) == SubSeq(l, 3, FirstEq(l) - 1)

\* a simple fileformat directive
IsFileFormatLine(l) == IsSimpleLine(l) /\ LineFieldType(l) = sfileformat

\* the number of fields of l separated by sep; the number of tab-separated
\* fields of l, and its k-th field
FieldCountOf(l, sep) == Cardinality({i \in 1..Len(l) : l[i] = sep}) + 1
FieldCount(l) == FieldCountOf(l, "\t")
Field(l, k) == Split(l, "\t")[k]

\* the index of the column header line: the first line starting with exactly
\* one #, every line before it starting with ## (0: there is none)
ColumnHeaderIndex ==
    LET lines == SourceLines
        S == {i \in 1..Len(lines) :
                 /\ IsColumnHeaderLine(lines[i])
                 /\ \A j \in 1..(i - 1) : IsMetaLine(lines[j])}
    IN IF S = {} THEN 0 ELSE CHOOSE i \in S : TRUE

\* no fault is to be detected before line i: line 1 is a simple fileformat
\* directive and every line between holds an '='
NoFaultBefore(i) ==
    /\ i >= 2
    /\ IsFileFormatLine(SourceLines[1])
    /\ \A j \in 2..(i - 1) : Contains(SourceLines[j], "=")

\* NewReader has just returned, with a Reader and a nil error
Returned == call.op = "NewReader"
Succeeded == Returned /\ reader # Nil /\ err = NilErr

\* NewReader has just failed with error e and returned no Reader
FailedWith(e) == Returned /\ reader = Nil /\ err = e

(***************************************************************************)
(* C1.  Field count of a record line.                                      *)
(***************************************************************************)

\* Read has just read a record line (not the end of the stream)
ReadALine == call.op = "Read" /\ call.line # <<>>

\* the line Read has read, without its terminator
LineRead == IF Contains(call.line, "\n") THEN SubSeq(call.line, 1, Len(call.line) - 1)
            ELSE call.line

\* N = len(Header.Genotypes)
NSamples == Cardinality(DOMAIN reader.Header.Genotypes)

\* Read has accepted the line
Accepted == feat # Nil /\ err \in {NilErr, EOF}

\* C1 as stated: for a header declaring N samples, Read accepts a record line
\* iff its field count is 8 or 9+N, and every other count fails with
\* TooFewColumns.  (Violated: with N = 0 a line of 9 = 9+N fields is refused.)
C1_AcceptIffEightOrNinePlusN ==
    ReadALine =>
        /\ Accepted <=> (FieldCount(LineRead) = 8 \/ FieldCount(LineRead) = 9 + NSamples)
        /\ ~Accepted => (feat = Nil /\ err = TooFewColumns)

\* C1 as amended: Read accepts a record line iff its field count is 8, or is
\* 9+N with N >= 1; every other count, 9 included whatever N is, fails with
\* TooFewColumns.
C1_AcceptIffEightOrNinePlusPositiveN ==
    ReadALine =>
        /\ Accepted <=> \/ FieldCount(LineRead) = 8
                        \/ (NSamples >= 1 /\ FieldCount(LineRead) = 9 + NSamples)
        /\ ~Accepted => (feat = Nil /\ err = TooFewColumns)
        /\ FieldCount(LineRead) = 9 => ~Accepted

\* C1 witness: a line of 9+N fields is accepted under a header with N = 2
C1_Witness ==
    ReadALine /\ Accepted /\ NSamples = 2 /\ FieldCount(LineRead) = 11

(***************************************************************************)
(* C2.  SingleGenotype is idempotent.                                      *)
(***************************************************************************)

\* C2: on one record, the successful calls for a sample have all returned the
\* same pointer, and ParsedGenotypes holds that pointer for each sample decoded
\* and nothing else.
C2_Idempotent ==
    feat # Nil =>
        /\ DOMAIN feat.ParsedGenotypes = DOMAIN returned
        /\ \A g \in DOMAIN returned : returned[g] = {feat.ParsedGenotypes[g]}
        /\ \A g \in DOMAIN returned : genoHeap[feat.ParsedGenotypes[g].addr].Id = g

\* C2 witness: a second call for the sample decoded first returns the first
\* object although another sample has been decoded since
C2_Witness ==
    /\ call.op = "SingleGenotype"
    /\ err = NilErr
    /\ Len(genoHeap) = 2
    /\ ret = Ptr(1)
    /\ feat.ParsedGenotypes[call.gen] = Ptr(1)

(***************************************************************************)
(* C3, C4.  The column header line.                                        *)
(***************************************************************************)

\* C3 as stated: when NewReader reaches the column header line, fewer than 8
\* fields fail with TooFewHeaderColumns; exactly 8 succeed with no samples;
\* exactly 9 fail, with MissingFormatColumn if the ninth field is not FORMAT
\* and FormatWithoutGenotype if it is.  (Violated: a ninth field FORMAT that
\* is followed by the line terminator is reported as MissingFormatColumn.)
C3_ColumnHeaderOutcome ==
    (Returned /\ NoFaultBefore(ColumnHeaderIndex)) =>
        LET l == SourceLines[ColumnHeaderIndex]
            k == FieldCount(l)
        IN /\ k < 8 => FailedWith(TooFewHeaderColumns)
           /\ k = 8 => (Succeeded /\ DOMAIN reader.Header.Genotypes = {})
           /\ (k = 9 /\ Field(l, 9) # sFORMAT) => FailedWith(MissingFormatColumn)
           /\ (k = 9 /\ Field(l, 9) = sFORMAT) => FailedWith(FormatWithoutGenotype)

\* C4 as stated: after a successful NewReader, a header with samples has a
\* column header line whose ninth field is literally FORMAT.  (Violated: with
\* ten fields or more the ninth field is never looked at.)
C4_GenotypesImplyFormat ==
    (Succeeded /\ DOMAIN reader.Header.Genotypes # {}) =>
        /\ ColumnHeaderIndex > 0
        /\ FieldCount(SourceLines[ColumnHeaderIndex]) >= 9
        /\ Field(SourceLines[ColumnHeaderIndex], 9) = sFORMAT

(***************************************************************************)
(* C5, C6, C7.  Faults of the header section.                              *)
(***************************************************************************)

\* the first ## line after line 1 that holds no '=', every line between
\* being a ## line that holds one (0: there is none)
BadMetaIndex ==
    LET lines == SourceLines
        S == {i \in 2..Len(lines) :
                 /\ IsMetaLine(lines[i]) /\ ~Contains(lines[i], "=")
                 /\ \A j \in 2..(i - 1) : IsMetaLine(lines[j]) /\ Contains(lines[j], "=")}
    IN IF S = {} THEN 0 ELSE CHOOSE i \in S : TRUE

\* C5 as stated: a first line that is not a simple fileformat directive makes
\* NewReader fail with NotAVCF, a later ## line without '=' makes it fail with
\* InvalidMetaHeader, and no Reader is returned.  (Violated: both errors are
\* overwritten by NoHeaderLine; a structured fileformat line is accepted.)
C5_FaultBeforeHeaderKeepsItsError ==
    Returned =>
        /\ (Len(SourceLines) >= 1 /\ ~IsFileFormatLine(SourceLines[1]))
              => FailedWith(NotAVCF)
        /\ (Len(SourceLines) >= 1 /\ IsFileFormatLine(SourceLines[1]) /\ BadMetaIndex > 0)
              => FailedWith(InvalidMetaHeader)

\* C6 as stated: for every stream with no column header line in its header
\* section NewReader fails with NoHeaderLine, whether the section ends at a
\* line without # or at the end of the stream, with or without a final line
\* terminator; it never returns a Reader with a nil error.  (Violated: a
\* stream ending just after the terminator of its last ## line.)
C6_NoColumnHeaderFails ==
    (Returned /\ stream # <<>> /\ ColumnHeaderIndex = 0) => FailedWith(NoHeaderLine)

\* C7 as stated: on an empty stream NewReader returns io.EOF and no Reader.
\* (Violated: it returns a Reader and a nil error.)
C7_EmptyStreamIsEOF ==
    (Returned /\ stream = <<>>) => FailedWith(EOF)

(***************************************************************************)
(* C8.  PrintOrder and the category collections.                           *)
(***************************************************************************)

\* the ## lines of the header section: the leading lines starting with ##
DirectiveLines ==
    LET lines == SourceLines
        n == Cardinality({i \in 1..Len(lines) : \A j \in 1..i : IsMetaLine(lines[j])})
    IN SubSeq(lines, 1, n)

\* the structured directives of the source, in the order of the source
StructuredLines == SelectSeq(DirectiveLines, IsStructuredLine)

\* the category collection named for a FieldType
ExpectedCategory(fieldType) ==
    CASE fieldType = <<"M", "E", "T", "A">> -> "Metas"
      [] fieldType = <<"I", "N", "F", "O">> -> "Infos"
      [] fieldType = <<"F", "I", "L", "T", "E", "R">> -> "Filters"
      [] fieldType = <<"F", "O", "R", "M", "A", "T">> -> "Formats"
      [] fieldType = <<"A", "L", "T">> -> "Alts"
      [] fieldType = <<"S", "A", "M", "P", "L", "E">> -> "Samples"
      [] fieldType = <<"a", "s", "s", "e", "m", "b", "l", "y">> -> "Assemblies"
      [] fieldType = <<"c", "o", "n", "t", "i", "g">> -> "Contigs"
      [] fieldType = <<"p", "e", "d", "i", "g", "r", "e", "e">> -> "Pedigrees"
      [] OTHER -> "Others"

\* the number of positions of collection c of the header that hold pointer p
Occurrences(c, p) ==
    Cardinality({i \in 1..Len(reader.Header[c]) : reader.Header[c][i] = p})

\* len(Metas) + ... + len(Others)
RECURSIVE SumOfLengths(_)
SumOfLengths(cs) ==
    IF cs = {} THEN 0
    ELSE LET c == CHOOSE x \in cs : TRUE
         IN Len(reader.Header[c]) + SumOfLengths(cs \ {c})

\* C8 as stated: after a successful NewReader on a stream with a column
\* header line, every structured directive of the source appears exactly once in PrintOrder, in source order, and exactly
\* once, as the same pointer, in the one collection its FieldType names by
\* exact match (Others when none); len(PrintOrder) is the sum of the lengths
\* of the ten collections; simple directives appear only in SingleVals.
\* (Violated: a structured fileformat directive on line 1 is accepted and
\* recorded nowhere.)
C8_PrintOrderAndCategories ==
    (Succeeded /\ ColumnHeaderIndex > 0) =>
        LET h == reader.Header
        IN /\ Len(h.PrintOrder) = Len(StructuredLines)
           /\ \A k \in 1..Len(h.PrintOrder) :
                 /\ k <= Len(StructuredLines)
                 /\ metaHeap[h.PrintOrder[k].addr].FieldType = LineFieldType(StructuredLines[k])
                 /\ Occurrences("PrintOrder", h.PrintOrder[k]) = 1
                 /\ \A c \in Categories :
                       Occurrences(c, h.PrintOrder[k]) =
                          IF c = ExpectedCategory(LineFieldType(StructuredLines[k])) THEN 1 ELSE 0
           /\ Len(h.PrintOrder) = SumOfLengths(Categories)
           /\ \A k \in 1..Len(h.SingleVals) :
                 \E i \in 1..Len(DirectiveLines) :
                    /\ IsSimpleLine(DirectiveLines[i])
                    /\ LineFieldType(DirectiveLines[i]) = h.SingleVals[k].FieldType

(***************************************************************************)
(* C9.  Round trip of a structured directive.                              *)
(***************************************************************************)

\* C9 as stated: for every structured directive d, parsing the serialisation
\* of d yields a directive equal to d, FieldOrder included.  (Violated: an
\* unrecognized key is written after every recognized key, so a directive
\* whose unrecognized key comes first is read back with another FieldOrder.)
C9_RoundTrip ==
    \A a \in 1..Len(metaHeap) :
       \A keys \in RangeOrders(metaHeap[a].Optional) :
          ParseDirective(MetaString(metaHeap[a], keys).str) = metaHeap[a]

(***************************************************************************)
(* C10.  Decoding of the GT sub-field.                                     *)
(***************************************************************************)

\* SingleGenotype has just decoded or returned the object of a sample whose
\* record has a GT sub-field
DecodedGT ==
    /\ call.op = "SingleGenotype"
    /\ err = NilErr
    /\ ret # Nil
    /\ sGT \in DOMAIN feat.Format

\* the GT value of the raw string of the sample of the last call
RawGT ==
    Split(feat.Genotypes[call.order[call.gen] + 1], ":")[feat.Format[sGT] + 1]

\* C10: the value is split on '|' and, when that yields more than one piece,
\* PhasedGT is true; otherwise it is split on '/' and PhasedGT is false; a
\* piece "." decodes to -1 and a numeral to its value; so 0|0, 0/0 and .
\* decode to (true, [0,0]), (false, [0,0]) and (false, [-1]).
C10_GTDecoding ==
    DecodedGT =>
        LET g == genoHeap[ret.addr]
            v == RawGT
            phased == Contains(v, "|")
            pieces == IF phased THEN Split(v, "|") ELSE Split(v, "/")
        IN /\ g.PhasedGT = phased
           /\ Len(g.GT) = Len(pieces)
           /\ \A i \in 1..Len(pieces) :
                 /\ pieces[i] = <<".">> => g.GT[i] = 0 - 1
                 /\ IsDigits(pieces[i]) => g.GT[i] = DecVal(pieces[i])
           /\ v = <<"0", "|", "0">> => (g.PhasedGT /\ g.GT = <<0, 0>>)
           /\ v = <<"0", "/", "0">> => (~g.PhasedGT /\ g.GT = <<0, 0>>)
           /\ v = <<".">> => (~g.PhasedGT /\ g.GT = <<0 - 1>>)

\* C10 witness: the value .|1 has been decoded to a phased [-1, 1]
C10_Witness ==
    /\ DecodedGT
    /\ RawGT = <<".", "|", "1">>
    /\ genoHeap[ret.addr].PhasedGT
    /\ genoHeap[ret.addr].GT = <<0 - 1, 1>>

(***************************************************************************)
(* C11, C12.  Failures of SingleGenotype.                                  *)
(***************************************************************************)

\* the step is a call of SingleGenotype
SingleGenotypeStep == call'.op = "SingleGenotype" /\ feat # Nil

\* C11: a call of SingleGenotype for a name that is not a key of the map it
\* is given fails with GenotypeNotInFile and returns no Genotype, also when
\* ParsedGenotypes holds an entry for the name, and it leaves the record,
\* ParsedGenotypes included, as it was.
C11_NameNotInOrder ==
    [][(SingleGenotypeStep /\ call'.gen \notin DOMAIN call'.order) =>
          /\ err' = GenotypeNotInFile
          /\ ret' = Nil
          /\ feat' = feat
          /\ genoHeap' = genoHeap]_vars

\* C11 witness: the call has failed for a name ParsedGenotypes holds
C11_Witness ==
    /\ call.op = "SingleGenotype"
    /\ call.gen \notin DOMAIN call.order
    /\ call.gen \in DOMAIN feat.ParsedGenotypes
    /\ err = GenotypeNotInFile

\* the call of the step is for a sample of the map, not decoded yet, whose
\* raw string has a number of pieces other than len(Format)
MalformedCall ==
    /\ SingleGenotypeStep
    /\ call'.gen \in DOMAIN call'.order
    /\ call'.gen \notin DOMAIN feat.ParsedGenotypes
    /\ call'.order[call'.gen] < Len(feat.Genotypes)
    /\ FieldCountOf(feat.Genotypes[call'.order[call'.gen] + 1], ":")
          # Cardinality(DOMAIN feat.Format)

\* C12: such a call fails with MalformedGenotypeData, adds no entry to
\* ParsedGenotypes and changes no field of the record, and every decoding
\* after it gives what it would have given without the failure.
C12_MalformedIsScoped ==
    [][MalformedCall =>
          /\ err' = MalformedGenotypeData
          /\ ret' = Nil
          /\ feat' = feat
          /\ genoHeap' = genoHeap
          /\ \A gen \in Names(reader.Header) : \A order \in Orders(reader.Header) :
                SingleGenotypeOf(feat', gen, order, genoHeap')
                   = SingleGenotypeOf(feat, gen, order, genoHeap)]_vars

\* C12 witness: the call has failed on a record of which another sample is
\* decoded
C12_Witness ==
    /\ call.op = "SingleGenotype"
    /\ err = MalformedGenotypeData
    /\ DOMAIN feat.ParsedGenotypes # {}
    /\ call.gen \notin DOMAIN feat.ParsedGenotypes

(***************************************************************************)
(* C13.  Info and InfoOrder.                                               *)
(***************************************************************************)

\* the semicolon-separated pieces of the INFO column of the line read
InfoPieces == Split(TrimSpace(Field(LineRead, 8)), ";")

\* C13 as stated: after Read has accepted a line, a piece without '=' of the
\* INFO column has its key stored as its own value, a piece key=value has
\* value stored under key, and InfoOrder[key] is the zero-based index of the
\* piece.  (Violated: of two pieces with one key only the last is recorded.)
C13_InfoAndInfoOrder ==
    (ReadALine /\ Accepted) =>
        \A i \in 1..Len(InfoPieces) :
           LET piece == InfoPieces[i]
               eq == FirstEq(piece)
               key == IF eq = 0 THEN piece ELSE SubSeq(piece, 1, eq - 1)
               value == IF eq = 0 THEN piece ELSE SubSeq(piece, eq + 1, Len(piece))
           IN FieldCountOf(piece, "=") <= 2 =>
                 /\ key \in DOMAIN feat.Info
                 /\ feat.Info[key] = value
                 /\ key \in DOMAIN feat.InfoOrder
                 /\ feat.InfoOrder[key] = i - 1

(***************************************************************************)
(* C14.  The missing QUAL marker.                                          *)
(***************************************************************************)

\* the source line of the Feature the caller holds
FeatLine == SourceLines[reader.LineNumber]

\* the QUAL column of a record line, trimmed as parseFeature trims it
QualText(l) == TrimSpace(Field(l, 6))

\* a text with a byte that no numeral has
NoNumeral(s) ==
    \E i \in 1..Len(s) : s[i] \notin Digits \cup {".", "e", "E", "+", "-"}

\* the lines written so far, and the last of them
WrittenLines == Split(w.buf, "\n")
LastWritten == WrittenLines[Len(WrittenLines)]

\* WriteFeature, called without a header, has just written the Feature the
\* caller holds
WroteFeature == call.op = "WriteFeature" /\ call.h = <<>> /\ err = NilErr

\* C14 as stated: a record whose QUAL column is "." is parsed to
\* Qual = MissingQualField, not to zero, and WriteFeature writes its QUAL
\* column back as "."; a QUAL text that is no numeral and not the marker
\* yields zero, which is not the sentinel.  (Violated: "." is parsed to zero,
\* and written back as "0".)
C14_MissingQualMarker ==
    /\ (ReadALine /\ Accepted /\ QualText(LineRead) = <<".">>) =>
          /\ feat.Qual = MissingQualField
          /\ feat.Qual # Float(0, 0)
    /\ (WroteFeature /\ QualText(FeatLine) = <<".">>) =>
          Field(LastWritten, 6) = <<".">>
    /\ (ReadALine /\ Accepted /\ QualText(LineRead) # <<".">> /\ NoNumeral(QualText(LineRead))) =>
          /\ feat.Qual = Float(0, 0)
          /\ feat.Qual # MissingQualField

(***************************************************************************)
(* C15.  The order of what WriteHeader emits.                              *)
(***************************************************************************)

\* the bytes the step has written
Output == SubSeq(w'.buf, Len(w.buf) + 1, Len(w'.buf))

\* the step is a call of WriteHeader
WriteHeaderStep == call'.op = "WriteHeader"

\* the serialisations of the directive at pointer p
Serialisations(p) ==
    {MetaString(metaHeap[p.addr], keys).str : keys \in RangeOrders(metaHeap[p.addr].Optional)}

\* the keys of the map m in increasing order of their values
ByIndex(m) ==
    CHOOSE p \in RangeOrders(m) : \A i, j \in 1..Len(p) : i < j => m[p[i]] <= m[p[j]]

\* the tab-separated fields of the column header line for the header h
ColumnFields(h) ==
    Split(sColumns, "\t")
    \o (IF DOMAIN h.Genotypes # {} THEN <<sFORMAT>> \o ByIndex(h.Genotypes) ELSE <<>>)

\* the lines of the header h, in the order of C15
HeaderLinesOK(h, lines) ==
    LET nS == Len(h.SingleVals)
        nP == Len(h.PrintOrder)
    IN /\ Len(lines) = nS + nP + 2
       /\ lines[1] = sFileFormatEq \o h.FileFormat
       /\ \A i \in 1..nS : lines[1 + i] = SingleValString(h.SingleVals[i])
       /\ \A i \in 1..nP : lines[1 + nS + i] \in Serialisations(h.PrintOrder[i])
       /\ Split(lines[Len(lines)], "\t") = ColumnFields(h)

\* C15 as stated: WriteHeader emits the ##fileformat= line, every
\* SingleValMeta in list order, every directive of PrintOrder in list order,
\* then the tab-separated column header line, with FORMAT and the sample
\* names in increasing index order appended iff Genotypes is non-empty, and
\* no trailing line terminator.  (Violated on headers that NewReader builds
\* with a sample name ending in a line terminator, or with an index beyond
\* the number of names.)
C15_HeaderOrder ==
    [][WriteHeaderStep =>
          /\ err' = NilErr
          /\ HeaderLinesOK(reader.Header, Split(Output, "\n"))
          /\ Output[Len(Output)] # "\n"]_vars

(***************************************************************************)
(* C16.  WriteHeader of a parsed Header against the source header.         *)
(***************************************************************************)

\* the header lines of the stream: the lines up to the column header line
SourceHeader == SubSeq(SourceLines, 1, ColumnHeaderIndex)

\* C16 as stated: for a header text that NewReader has accepted, WriteHeader
\* of the parsed Header emits the fileformat line, every meta-information
\* line and the column header line as they are in the source, in the order
\* of the source.  (Violated: every ##key=value line is written before
\* every ##key=<...> line, whatever their order in the source.)
C16_HeaderRoundTrip ==
    [][(WriteHeaderStep /\ ColumnHeaderIndex > 0) =>
          /\ err' = NilErr
          /\ Split(Output, "\n") = SourceHeader]_vars

(***************************************************************************)
(* C17.  The INFO column WriteFeature emits.                               *)
(***************************************************************************)

\* the step is a call of WriteFeature without a header
WriteFeatureStep == call'.op = "WriteFeature" /\ call'.h = <<>>

\* the record line the step has written, after its leading line terminator
OutputLine == SubSeq(Output, 2, Len(Output))

\* the rendering of the info entry of key: the bare key when the value
\* stored is the key, key=value otherwise
InfoEntry(f, key) ==
    IF f.Info[key] = key THEN key ELSE key \o <<"=">> \o f.Info[key]

\* C17 as stated: the INFO column WriteFeature emits is a list of len(Info)
\* entries joined by ';', the entry of each key placed at the position
\* InfoOrder gives it, rendered as the bare key when its value equals the
\* key and as key=value otherwise.  (Violated: for a record read from an INFO
\* column with a repeated key the position is beyond the list.)
C17_InfoColumn ==
    [][WriteFeatureStep =>
          /\ Len(Output) > 0
          /\ Output[1] = "\n"
          /\ LET pieces == Split(Field(OutputLine, 8), ";")
             IN /\ Len(pieces) = Cardinality(DOMAIN feat.Info)
                /\ \A key \in DOMAIN feat.InfoOrder :
                      /\ feat.InfoOrder[key] < Len(pieces)
                      /\ pieces[feat.InfoOrder[key] + 1] = InfoEntry(feat, key)]_vars

(***************************************************************************)
(* C18.  A record parse error does not abort the stream.                   *)
(***************************************************************************)

\* the step is a call of Read
ReadStep == call'.op = "Read"

\* l is one line: no line terminator before its last byte
OneLine(l) == \A i \in 1..(Len(l) - 1) : l[i] # "\n"

\* l without its line terminator
Unterminated(l) ==
    IF Len(l) > 0 /\ l[Len(l)] = "\n" THEN SubSeq(l, 1, Len(l) - 1) ELSE l

\* the field count of l is one Read accepts under a header of n samples
AcceptedCount(l, n) == FieldCount(l) = 8 \/ (n >= 1 /\ FieldCount(l) = 9 + n)

\* the Feature f holds the columns of the record line l
RecordOf(f, l) ==
    /\ f # Nil
    /\ f.Chrom = TrimSpace(Field(l, 1))
    /\ f.Pos = ParseUint(TrimSpace(Field(l, 2)))
    /\ f.Id = TrimSpace(Field(l, 3))
    /\ f.Ref = TrimSpace(Field(l, 4))
    /\ f.Filter = TrimSpace(Field(l, 7))
    /\ Len(f.Genotypes) = (IF FieldCount(l) > 8 THEN FieldCount(l) - 9 ELSE 0)

\* C18: a Read that fails with TooFewColumns consumes exactly the one line it
\* has read and leaves Reader.Header (and the directives it points to)
\* unchanged; the Read after it reads the following line of the stream and
\* returns the record of that line, or io.EOF when there is none.
C18_ParseErrorDoesNotAbort ==
    [][/\ (ReadStep /\ err' = TooFewColumns) =>
             /\ reader'.Header = reader.Header
             /\ metaHeap' = metaHeap
             /\ reader.buf = call'.line \o reader'.buf
             /\ OneLine(call'.line)
             /\ Unterminated(call'.line) = SourceLines[reader'.LineNumber]
       /\ (call.op = "Read" /\ err = TooFewColumns /\ ReadStep) =>
             IF reader'.LineNumber > Len(SourceLines)
             THEN feat' = Nil /\ err' = EOF
             ELSE /\ Unterminated(call'.line) = SourceLines[reader'.LineNumber]
                  /\ AcceptedCount(SourceLines[reader'.LineNumber], NSamples) =>
                        /\ err' \in {NilErr, EOF}
                        /\ RecordOf(feat', SourceLines[reader'.LineNumber])]_vars

\* a Read has returned the record of a line that follows a line of too few
\* columns
C18_Witness ==
    /\ ReadALine /\ Accepted
    /\ reader.LineNumber - 1 > ColumnHeaderIndex
    /\ ColumnHeaderIndex > 0
    /\ FieldCount(SourceLines[reader.LineNumber - 1]) < 8
    /\ RecordOf(feat, LineRead)

(***************************************************************************)
(* C19.  Sample names and their indices.                                   *)
(***************************************************************************)

\* the column header line of the stream, and its sample names: its fields
\* from the tenth on
ColumnHeaderText == SourceLines[ColumnHeaderIndex]
SampleColumns ==
    LET fields == Split(ColumnHeaderText, "\t")
    IN SubSeq(fields, 10, Len(fields))

\* C19 as stated: for a column header line of 10 or more fields with
\* pairwise distinct sample names, Header.Genotypes has exactly the sample
\* names as keys, written as in the line without a line terminator, and maps
\* the name of the i-th sample column to i, counting from 0.  (Violated: the
\* last name keeps the line terminator of a terminated line.)
C19_SampleIndices ==
    (/\ Succeeded
     /\ ColumnHeaderIndex > 0
     /\ FieldCount(ColumnHeaderText) >= 10
     /\ \A i, j \in 1..Len(SampleColumns) : SampleColumns[i] = SampleColumns[j] => i = j) =>
        /\ DOMAIN reader.Header.Genotypes = {SampleColumns[i] : i \in 1..Len(SampleColumns)}
        /\ \A i \in 1..Len(SampleColumns) :
              reader.Header.Genotypes[SampleColumns[i]] = i - 1

(***************************************************************************)
(* C20.  The order of the pairs Meta.String emits.                         *)
(***************************************************************************)

\* the value Meta.String has for the key of a pair: the typed field of a
\* recognized key, the Optional entry of any other key (empty: none)
ValueOf(m, key) ==
    CASE key = sID -> m.Id
      [] key = sNumber -> m.Number
      [] key = sType -> m.Type
      [] key = sDescription -> m.Description
      [] key = sURL -> m.Url
      [] OTHER -> IF key \in DOMAIN m.Optional THEN m.Optional[key] ELSE <<>>

\* the pairs key=value of the keys of FieldOrder whose value is not empty, in
\* the order of FieldOrder
PairsInFieldOrder(m) ==
    LET fo == m.FieldOrder
        RECURSIVE go(_, _)
        go(i, acc) ==
            IF i > Len(fo) THEN acc
            ELSE go(i + 1, IF ValueOf(m, fo[i]) # <<>>
                           THEN Append(acc, fo[i] \o <<"=">> \o ValueOf(m, fo[i]))
                           ELSE acc)
    IN go(1, <<>>)

\* C20 as stated: Meta.String emits ##FieldType=<, then one pair key=value
\* for each key of FieldOrder whose value is not empty, in the order of
\* FieldOrder, a key read from Optional at its own position among the
\* recognized keys, the pairs separated by commas with no trailing comma,
\* then >.  (Violated: the pairs of Optional are written after all pairs of
\* recognized keys.)
C20_PairsInFieldOrder ==
    \A a \in 1..Len(metaHeap) :
       \A keys \in RangeOrders(metaHeap[a].Optional) :
          LET res == MetaString(metaHeap[a], keys)
          IN res.str = <<"#", "#">> \o res.m.FieldType \o <<"=", "<">>
                       \o Join(PairsInFieldOrder(res.m), <<",">>) \o <<">">>

(***************************************************************************)
(* C21.  Meta.String without a FieldOrder.                                 *)
(***************************************************************************)

\* the pairs key=value of the recognized fields of m that are set, in the
\* canonical order
CanonicalPairs(m) ==
    PairsInFieldOrder([m EXCEPT !.FieldOrder = <<sID, sNumber, sType, sDescription, sURL>>,
                                !.Optional = EmptyMap])

\* the pairs key=value of the Optional entries of m, in the order keys
OptionalPairs(m, keys) ==
    [i \in 1..Len(keys) |-> keys[i] \o <<"=">> \o m.Optional[keys[i]]]

\* C21 as stated: for a directive whose FieldOrder is empty, Meta.String
\* emits the recognized fields that are set in the order ID, Number, Type,
\* Description, URL, followed by a pair key=value for every key of Optional,
\* in some order.  (Violated: the default FieldOrder is extended by the
\* values of Optional, not by its keys, and no pair of Optional is emitted.)
C21_DefaultFieldOrder ==
    (call.op = "String" /\ Len(call.m.FieldOrder) = 0) =>
        \E keys \in RangeOrders(call.m.Optional) :
           ret = <<"#", "#">> \o call.m.FieldType \o <<"=", "<">>
                 \o Join(CanonicalPairs(call.m) \o OptionalPairs(call.m, keys), <<",">>)
                 \o <<">">>

(***************************************************************************)
(* C22.  FieldOrder of the directives NewReader builds.                    *)
(***************************************************************************)

\* the keys of the sub-fields key=value of a structured directive line, in
\* the order of the line
SourceKeys(l) ==
    LET pieces == Split(SubSeq(l, FirstEq(l) + 2, Len(l) - 1), ",")
        withEq == SelectSeq(pieces, LAMBDA p : Contains(p, "="))
    IN [i \in 1..Len(withEq) |-> SubSeq(withEq[i], 1, FirstEq(withEq[i]) - 1)]

\* the keys present in the directive m: its recognized fields that are set
\* and the keys of Optional
KeysPresent(m) ==
    {k \in {sID, sNumber, sType, sDescription, sURL} : ValueOf(m, k) # <<>>}
    \cup DOMAIN m.Optional

\* C22 as stated: for every structured directive built by NewReader, a
\* non-empty FieldOrder lists every key present in the directive (each set
\* recognized field and every Optional key) exactly once, in the order of
\* the source line, and does not contain FieldType.  (Violated: a key written
\* twice in the line is listed twice, and a sub-field whose key is FieldType
\* is listed and replaces the type of the directive.)
C22_FieldOrderListsKeysOnce ==
    (Succeeded /\ ColumnHeaderIndex > 0) =>
        \A k \in 1..Len(reader.Header.PrintOrder) :
           k <= Len(StructuredLines) =>
              LET m == metaHeap[reader.Header.PrintOrder[k].addr]
                  fo == m.FieldOrder
                  src == SourceKeys(StructuredLines[k])
              IN Len(fo) > 0 =>
                    /\ \A key \in KeysPresent(m) :
                          Cardinality({i \in 1..Len(fo) : fo[i] = key}) = 1
                    /\ \A i, j \in 1..Len(fo) :
                          i < j => \E p, q \in 1..Len(src) :
                                      p < q /\ src[p] = fo[i] /\ src[q] = fo[j]
                    /\ \A i \in 1..Len(fo) : fo[i] # sFieldType

(***************************************************************************)
(* C23.  Positions of a record.                                            *)
(***************************************************************************)

\* C23: for every Feature, StartZero() = EndZero() = Pos - 1 when Pos > 0
\* and 0 when Pos = 0, with no unsigned wrap-around, and StartOne() =
\* EndOne() = Pos, which is 0 when Pos = 0.
C23_Positions ==
    call.op = "Position" =>
        /\ call.fn \in {"StartZero", "EndZero"} =>
              ret = IF feat.Pos > 0 THEN feat.Pos - 1 ELSE 0
        /\ call.fn \in {"StartOne", "EndOne"} => ret = feat.Pos

\* EndZero has just returned 0 on a record at position 0
C23_Witness ==
    call.op = "Position" /\ call.fn = "EndZero" /\ feat.Pos = 0 /\ ret = 0

(***************************************************************************)
(* C24.  WriteAll.                                                         *)
(***************************************************************************)

\* the step is a call of WriteAll with a header that is not nil, and that
\* WriteHeader writes without a fault
WriteAllStep ==
    /\ call'.op = "WriteAll"
    /\ call'.h # <<>>
    /\ call'.h[1] # Nil
    /\ ColumnLine(call'.h[1]).err = NilErr

\* the record lines of the records f, each after its line terminator, in the
\* order of f
RECURSIVE RecordLines(_)
RecordLines(f) ==
    IF f = <<>> THEN <<>> ELSE WriteFeatureOf(Head(f)).out \o RecordLines(Tail(f))

\* C24 as stated: WriteAll(records, header) with a non-nil header and any
\* list of records writes the header once, then one line per record in the
\* order of the list, and completes without a runtime fault.  (Violated:
\* with one record or more, WriteAll ends in a nil pointer dereference after
\* the header, before any record is written.)
C24_WriteAll ==
    [][WriteAllStep =>
          /\ err' # Panic
          /\ \E a \in WriteHeaderOf(call'.h[1], metaHeap) :
                Output = a.out \o RecordLines(call'.f)]_vars

(***************************************************************************)
(* C26.  The header test of WriteFeature.                                  *)
(***************************************************************************)

\* the Writer has printed a header already
HeaderPrinted ==
    /\ Len(w.buf) >= Len(sFileFormatEq)
    /\ SubSeq(w.buf, 1, Len(sFileFormatEq)) = sFileFormatEq

\* C26 as stated: on one Writer the header is emitted at most once however
\* many times WriteFeature is called with a header argument: a call with a
\* header on a Writer that has printed one already writes the record line
\* only.  (Violated: the Writer never records that it has printed a header,
\* and every such call writes it again.)
C26_HeaderAtMostOnce ==
    [][(call'.op = "WriteFeature" /\ call'.h # <<>> /\ call'.h[1] # Nil /\ HeaderPrinted) =>
          Output = WriteFeatureOf(feat).out]_vars

(***************************************************************************)
(* C25.  The records of a stream, Read after Read.                         *)
(***************************************************************************)

\* the number of lines that follow the column header line
DataLineCount == Len(SourceLines) - ColumnHeaderIndex

\* the i-th line after the column header line
DataLine(i) == SourceLines[ColumnHeaderIndex + i]

\* the stream has a column header line, and every line after it has a field
\* count that Read accepts under the header
WellFormedData ==
    /\ ColumnHeaderIndex > 0
    /\ \A i \in 1..DataLineCount : AcceptedCount(DataLine(i), NSamples)

\* C25: after NewReader has succeeded on a stream with k well-formed data
\* lines after the column header line, the i-th Read (1 <= i <= k) returns
\* the record of the i-th data line, with a nil error unless that line is the
\* last and has no line terminator, when the record comes with io.EOF; every
\* Read after that returns (nil, io.EOF).  (The Reads are counted from the
\* return of NewReader: the first Read is the Read numbered 1.)
C25_ReadsInOrder ==
    [][(ReadStep /\ WellFormedData) =>
          LET i == reader'.LineNumber - ColumnHeaderIndex
          IN /\ call.op = "NewReader" => i = 1
             /\ reader'.LineNumber = reader.LineNumber + 1
             /\ IF i <= DataLineCount
                THEN /\ Unterminated(call'.line) = DataLine(i)
                     /\ RecordOf(feat', DataLine(i))
                     /\ err' = IF i = DataLineCount /\ stream[Len(stream)] # "\n"
                               THEN EOF ELSE NilErr
                ELSE feat' = Nil /\ err' = EOF]_vars

\* the second Read has returned the record of the second of two data lines,
\* the last line of a stream that ends without a line terminator
C25_Witness ==
    /\ call.op = "Read"
    /\ WellFormedData
    /\ DataLineCount = 2
    /\ reader.LineNumber - ColumnHeaderIndex = 2
    /\ stream[Len(stream)] # "\n"
    /\ RecordOf(feat, DataLine(2))
    /\ err = EOF

(***************************************************************************)
(* C27.  SingleGenotype on every accepted record.                          *)
(***************************************************************************)

\* C27 as stated: for every record that Read has accepted under a header H,
\* records of 8 fields under a header with samples included, and every
\* sample name of H.Genotypes, SingleGenotype returns a Genotype or an
\* error value; it never indexes beyond the raw Genotypes list of the
\* record.  (Violated: a record of 8 fields has no raw genotype, and
\* f.Genotypes[loc] is out of range for every sample of the header.)
C27_SingleGenotypeReturns ==
    (/\ call.op = "SingleGenotype"
     /\ reader # Nil
     /\ call.order = reader.Header.Genotypes
     /\ call.gen \in DOMAIN call.order) =>
        /\ err # Panic
        /\ (ret # Nil /\ err = NilErr) \/ (ret = Nil /\ err # NilErr)

(***************************************************************************)
(* C28.  The indices of Header.Genotypes.                                  *)
(***************************************************************************)

\* C28 as stated: for every header NewReader has accepted, column header
\* lines that repeat a sample name included, the values of Header.Genotypes
\* are the indices 0..len(Header.Genotypes)-1, each once, and
\* len(Header.Genotypes) is the number of sample columns of the column header
\* line.  (Violated: a repeated name takes one key, which keeps the index of
\* its last column: the map is shorter than the sample columns and holds an
\* index beyond its length.)
C28_GenotypeIndices ==
    (Succeeded /\ ColumnHeaderIndex > 0) =>
        LET g == reader.Header.Genotypes
            n == Cardinality(DOMAIN g)
        IN /\ {g[k] : k \in DOMAIN g} = 0..(n - 1)
           /\ \A j, k \in DOMAIN g : g[j] = g[k] => j = k
           /\ n = Len(SampleColumns)

(***************************************************************************)
(* C29.  Info and InfoOrder of a record are consistent.                    *)
(***************************************************************************)

\* C29 as stated: for every record Read returns, Info and InfoOrder have the
\* same key set, and InfoOrder maps those keys one-to-one onto
\* 0..len(Info)-1.  (Violated: a key in two pieces of the INFO column is
\* stored once, with the index of its last piece, which is beyond
\* len(Info)-1.)
C29_InfoOrderOntoIndices ==
    (ReadALine /\ Accepted) =>
        LET n == Cardinality(DOMAIN feat.Info)
        IN /\ DOMAIN feat.Info = DOMAIN feat.InfoOrder
           /\ {feat.InfoOrder[k] : k \in DOMAIN feat.InfoOrder} = 0..(n - 1)
           /\ \A j, k \in DOMAIN feat.InfoOrder :
                 feat.InfoOrder[j] = feat.InfoOrder[k] => j = k

(***************************************************************************)
(* C30.  Round trip of the INFO column.                                    *)
(***************************************************************************)

\* the step is a call of WriteFeature, without a header, on the record that
\* the Read just before it has returned
WriteOfRecordRead == ReadALine /\ Accepted /\ WriteFeatureStep

\* C30 as stated: for every record line Read has accepted, WriteFeature of
\* the parsed record emits an INFO column equal to the INFO column of the
\* source line: the same fields, in the same order, each in the same
\* key=value or bare-flag form.  (Violated: a field key=value whose value is
\* the key is written as a bare flag, a value is cut at its first '=', and
\* for a repeated key nothing is written.)
C30_InfoRoundTrip ==
    [][WriteOfRecordRead =>
          /\ Len(Output) > 0
          /\ Split(Field(OutputLine, 8), ";") = InfoPieces]_vars

=============================================================================
